---- MODULE Spec2Model ----
(***************************************************************************)
(* A model of the scoring stack of home-mixer: the micro-batching          *)
(* decorator (scorers/batched_phoenix_scorer.rs) and the caching decorator *)
(* (scorers/cached_phoenix_scorer.rs) around the Phoenix scorer.           *)
(*                                                                         *)
(* Time is discrete.  In the batching part one tick is the resolution of   *)
(* the tokio timer; the consumer task is scheduled promptly, that is, no   *)
(* tick passes while a branch of its select! is ready.  In the caching     *)
(* part one tick is one second of SystemTime.                              *)
(***************************************************************************)
EXTENDS Integers, Sequences, FiniteSets, TLC

\* ------------------------------------------------------------------ bounds

\* score() calls made on the batching decorator in one run
NumReq == 3
\* BatchConfig.max_batch_size ranges over 0 .. MaxBatchSize
MaxBatchSize == 3
\* BatchConfig.max_wait_time, in ticks
max_wait_time == 3
\* viewers (query.user_id)
Viewers == {1, 2}
\* the candidate lists a caller may submit (sequences of tweet ids)
CandLists == {<<1>>, <<2, 1>>}
\* the errors the wrapped scorer may return
Errors == {"unavailable"}

\* UserClusteringService.num_clusters ranges over 0 .. MaxClusters
MaxClusters == 2
\* score_with_freshness is given ages of up to MaxHalfLives half-lives, and
\* apply_diversity_penalty the author-post counts 0 .. MaxRank among others
MaxHalfLives == 2
MaxRank == 3
\* select_top_k is given at most MaxItems items
MaxItems == 3
\* the viewers known to the clustering service
ClusterUsers == {1, 2, 3}

\* score() calls made on the caching decorator in one run
MaxCalls == 3
\* CacheConfig.user_cache_size ranges over 1 .. MaxCacheSize
MaxCacheSize == 2
\* CacheConfig.user_cache_ttl_secs
user_cache_ttl_secs == 1
\* the SystemTime clock runs from 0 to MaxNow seconds
MaxNow == 2

\* the age filter's clock runs for MaxFilterNow ticks of half an hour
MaxFilterNow == 3
\* AgeFilter.max_age, in ticks
max_age == 1
\* the tasks that call the caching decorator
CacheTasks == {1, 2}
\* the candidate lists submitted to the caching decorator
CacheCandLists == {<<1>>, <<2, 1>>, <<1, 1>>}

VARIABLES
    \* --- batching decorator
    max_batch_size,   \* config.max_batch_size
    requests,         \* the BatchRequests created so far, by request id
    queue,            \* the mpsc channel: ids of the requests sent and not yet received
    pending,          \* batch_processor's pending_requests (ids, in push order)
    pc,               \* batch_processor's position: "select" | "scoring" | "stats"
    inflight,         \* flush_batch's locals across scorer.score(..).await
    delivered,        \* per request: the results sent on its one-shot handle, in order
    elapsed,          \* batch_start.elapsed(), saturating at max_wait_time
    timer,            \* time since the select!'s sleep was created, up to max_wait_time
    window_age,       \* time since the oldest pending request was received, saturating
    burst,            \* time since the first score() call, up to max_wait_time; max_wait_time + 1
                      \* once a call was made max_wait_time or more after the first
    total_requests,   \* stats.total_requests
    total_batches,    \* stats.total_batches
    dropped,          \* the requests whose caller has gone: the receiver of the one-shot
                      \* handle is dropped
    closed,           \* the BatchedPhoenixScorer is dropped: the channel has no sender
    avg_batch_size,   \* stats.avg_batch_size, as the fraction <<numerator, denominator>>
    \* --- caching decorator
    user_cache_size,  \* config.user_cache_size
    user_cache,       \* the LruCache: entries [key, value, timestamp], most recently used first
    now,              \* SystemTime::now(), in seconds
    cache_hits,       \* the cache_hits counter
    cache_misses,     \* the cache_misses counter
    inner_calls,      \* calls made to the wrapped scorer (the mock's call_counter)
    calls,            \* per task: the position and the locals of its score() call, and
                      \* for the call started last, its number among all calls (call_no)
    ncalls,           \* score() calls started so far
    last_done,        \* the score() call completed last, if nothing touched the cache since
    \* --- clustering service
    num_clusters,     \* UserClusteringService.num_clusters
    clusters,         \* the viewer -> ClusterProfile map behind the RwLock
    refresh,          \* the position and the locals of the refresh_clusters call
    got,              \* what the last get_user_cluster call returned
    assigned,         \* per viewer: the profile assigned last, since the last refresh
    \* --- scoring functions
    fn_call,          \* the function called last, with its arguments
    fn_ret,           \* what that call returned
    \* --- age filter
    timestamp_cache,  \* AgeFilter.timestamp_cache: tweet_id -> [value, inserted]
    filter_now        \* the clock read by chrono::Utc::now() and by the cache, in ticks

batchVars == <<max_batch_size, requests, queue, pending, pc, inflight, delivered,
               elapsed, timer, window_age, burst, total_requests, total_batches, dropped,
               avg_batch_size, closed>>

cacheVars == <<user_cache_size, user_cache, now, cache_hits, cache_misses, inner_calls,
               calls, ncalls, last_done>>

clusterVars == <<num_clusters, clusters, refresh, got, assigned>>

filterVars == <<timestamp_cache, filter_now>>

fnVars == <<fn_call, fn_ret, filterVars>>

vars == <<batchVars, cacheVars, clusterVars, fnVars>>

\* ------------------------------------------------------------- helpers

Min(a, b) == IF a < b THEN a ELSE b

Range(s) == {s[i] : i \in 1 .. Len(s)}

\* Result<Vec<PostCandidate>, String>
Ok(v) == [ok |-> TRUE, val |-> v]
Err(e) == [ok |-> FALSE, err |-> e]

\* The wrapped scorer on one candidate: the scores depend on the viewer and the post.
ScoreOne(v, c) == [tweet_id |-> c, phoenix_scores |-> <<v, c>>]

\* The wrapped scorer's successful result: one element per candidate, in order.
InnerScore(v, cands) == [i \in 1 .. Len(cands) |-> ScoreOne(v, cands[i])]

\* -------------------------------------------------- batching decorator

NoCall == [query |-> 0, all_candidates |-> <<>>, request_boundaries |-> <<>>, batch_size |-> 0]

BatchInit ==
    /\ max_batch_size \in 0 .. MaxBatchSize
    /\ requests = <<>>
    /\ queue = <<>>
    /\ pending = <<>>
    /\ pc = "select"
    /\ inflight = NoCall
    /\ delivered = [r \in 1 .. NumReq |-> <<>>]
    /\ elapsed = 0
    /\ timer = 0
    /\ window_age = 0
    /\ burst = 0
    /\ total_requests = 0
    /\ total_batches = 0
    /\ dropped = {}
    /\ closed = FALSE
    /\ avg_batch_size = <<0, 1>>

\* score(): create the request with its one-shot handle and send it on the channel.
Enqueue(v, c) ==
    /\ ~closed
    /\ Len(requests) < NumReq
    /\ requests' = Append(requests, [query |-> v, candidates |-> c])
    /\ queue' = Append(queue, Len(requests) + 1)
    /\ burst' = IF requests = <<>> THEN 0
                ELSE IF burst >= max_wait_time THEN max_wait_time + 1 ELSE burst
    /\ UNCHANGED <<closed, dropped, avg_batch_size, max_batch_size, pending, pc, inflight, delivered, elapsed, timer,
                   window_age, total_requests, total_batches>>
    /\ UNCHANGED <<cacheVars, clusterVars, fnVars>>

\* a faulty flush decision (strict comparison on the size), to test C5 against
should_flush_strict(p) ==
    \/ Len(p) > max_batch_size
    \/ (Len(p) > 0 /\ elapsed >= max_wait_time)

\* the flush decision after a push
should_flush(p) ==
    \/ Len(p) >= max_batch_size
    \/ (Len(p) > 0 /\ elapsed >= max_wait_time)

RECURSIVE Combine(_, _)
\* flush_batch's loop over the first n pending requests: all_candidates and request_boundaries
Combine(p, n) ==
    IF n = 0 THEN [all |-> <<>>, bounds |-> <<>>]
    ELSE LET prev == Combine(p, n - 1) IN
         [all |-> prev.all \o requests[p[n]].candidates,
          bounds |-> Append(prev.bounds, Len(prev.all))]

\* flush_batch up to the await of the wrapped scorer's call
StartFlush(p) ==
    LET c == Combine(p, Len(p)) IN
    /\ pending' = p
    /\ inflight' = [query |-> requests[p[1]].query,
                    all_candidates |-> c.all,
                    request_boundaries |-> Append(c.bounds, Len(c.all)),
                    batch_size |-> Len(p)]
    /\ pc' = "scoring"
    /\ UNCHANGED <<elapsed, timer, window_age>>

\* BatchConfig::default().max_concurrent_batches; batch_processor never reads it
max_concurrent_batches == 4

\* a faulty receive (the request sent last is received first), to test C33
\* against
RecvNewestFirst ==
    /\ pc = "select"
    /\ queue # <<>>
    /\ queue' = SubSeq(queue, 1, Len(queue) - 1)
    /\ LET p == Append(pending, queue[Len(queue)]) IN
       IF should_flush(p)
       THEN StartFlush(p)
       ELSE /\ pending' = p
            /\ timer' = 0
            /\ window_age' = IF pending = <<>> THEN 0 ELSE window_age
            /\ UNCHANGED <<pc, inflight, elapsed>>
    /\ UNCHANGED <<closed, dropped, avg_batch_size, max_batch_size, requests, delivered, burst, total_requests, total_batches>>
    /\ UNCHANGED <<cacheVars, clusterVars, fnVars>>

\* select!: the rx.recv() branch
Recv ==
    /\ pc = "select"
    /\ queue # <<>>
    /\ queue' = Tail(queue)
    /\ LET p == Append(pending, Head(queue)) IN
       IF should_flush(p)
       THEN StartFlush(p)
       ELSE /\ pending' = p
            /\ timer' = 0
            /\ window_age' = IF pending = <<>> THEN 0 ELSE window_age
            /\ UNCHANGED <<pc, inflight, elapsed>>
    /\ UNCHANGED <<closed, dropped, avg_batch_size, max_batch_size, requests, delivered, burst, total_requests, total_batches>>
    /\ UNCHANGED <<cacheVars, clusterVars, fnVars>>

\* a faulty timer branch (it never flushes), to test C8 against
TimerFireNoFlush ==
    /\ pc = "select"
    /\ timer >= max_wait_time
    /\ timer' = 0
    /\ UNCHANGED <<pending, pc, inflight, elapsed, window_age>>
    /\ UNCHANGED <<closed, dropped, avg_batch_size, max_batch_size, requests, queue, delivered, burst, total_requests,
                   total_batches>>
    /\ UNCHANGED <<cacheVars, clusterVars, fnVars>>

\* select!: the sleep(max_wait_time) branch
TimerFire ==
    /\ pc = "select"
    /\ timer >= max_wait_time
    /\ IF pending # <<>>
       THEN StartFlush(pending)
       ELSE /\ timer' = 0
            /\ UNCHANGED <<pending, pc, inflight, elapsed, window_age>>
    /\ UNCHANGED <<closed, dropped, avg_batch_size, max_batch_size, requests, queue, delivered, burst, total_requests,
                   total_batches>>
    /\ UNCHANGED <<cacheVars, clusterVars, fnVars>>

\* a faulty slice (the start offset is dropped), to test C2 against
SliceNoOffset(results, bounds, idx) == SubSeq(results, 1, bounds[idx + 1] - bounds[idx])

\* the slice results[start_idx..end_idx] of the idx-th request (idx from 1)
Slice(results, bounds, idx) == SubSeq(results, bounds[idx] + 1, bounds[idx + 1])

\* a faulty reply (on a failure only the first request is sent the error, the
\* others an empty success), to test C3 against
ReplyErrFirstOnly(scored, idx) ==
    IF scored.ok THEN Ok(SubSeq(scored.val, inflight.request_boundaries[idx] + 1,
                                inflight.request_boundaries[idx + 1]))
    ELSE IF idx = 1 THEN Err(scored.err)
    ELSE Ok(<<>>)

\* what flush_batch sends to the idx-th pending request for the wrapped scorer's outcome
Reply(scored, idx) ==
    IF scored.ok THEN Ok(Slice(scored.val, inflight.request_boundaries, idx))
    ELSE Err(scored.err)

\* the position of request r in the sequence of ids p
IndexOf(p, r) == CHOOSE i \in 1 .. Len(p) : p[i] = r

\* a faulty completion (on a failure the requests are drained without a send),
\* to test C1 against
CompleteErrUnsent(scored) ==
    /\ delivered' = [r \in 1 .. NumReq |->
                       IF r \in Range(pending) /\ scored.ok
                       THEN Append(delivered[r],
                                   Ok(SubSeq(scored.val,
                                             inflight.request_boundaries[IndexOf(pending, r)] + 1,
                                             inflight.request_boundaries[IndexOf(pending, r) + 1])))
                       ELSE delivered[r]]
    /\ pending' = <<>>
    /\ pc' = "stats"

\* a faulty completion (the drain ends at the first request whose send fails),
\* to test C28 against
CompleteStopsAtDropped(scored) ==
    /\ delivered' = [r \in 1 .. NumReq |->
                       IF /\ r \in Range(pending)
                          /\ \A i \in 1 .. IndexOf(pending, r) : pending[i] \notin dropped
                       THEN Append(delivered[r], Reply(scored, IndexOf(pending, r)))
                       ELSE delivered[r]]
    /\ pending' = <<>>
    /\ pc' = "stats"

\* flush_batch from the return of the wrapped scorer to the end of the drain:
\* every pending request is taken out of the buffer and sent its reply; the
\* send to a request whose receiver is dropped fails, and `let _ =` ignores it
Complete(scored) ==
    /\ delivered' = [r \in 1 .. NumReq |->
                       IF r \in Range(pending) /\ r \notin dropped
                       THEN Append(delivered[r], Reply(scored, IndexOf(pending, r)))
                       ELSE delivered[r]]
    /\ pending' = <<>>
    /\ pc' = "stats"

\* the wrapped scorer returns Ok for the call in flight
ScorerOk ==
    /\ pc = "scoring"
    /\ Complete(Ok(InnerScore(inflight.query, inflight.all_candidates)))
    /\ UNCHANGED <<closed, dropped, avg_batch_size, max_batch_size, requests, queue, inflight, elapsed, timer, window_age,
                   burst, total_requests, total_batches>>
    /\ UNCHANGED <<cacheVars, clusterVars, fnVars>>

\* the wrapped scorer returns Err for the call in flight
ScorerErr(e) ==
    /\ pc = "scoring"
    /\ Complete(Err(e))
    /\ UNCHANGED <<closed, dropped, avg_batch_size, max_batch_size, requests, queue, inflight, elapsed, timer, window_age,
                   burst, total_requests, total_batches>>
    /\ UNCHANGED <<cacheVars, clusterVars, fnVars>>

\* the future of score() is dropped while it waits at rx.await (its caller
\* timed out or was aborted): the receiver of request r's handle is gone
Cancel(r) ==
    /\ r \in 1 .. Len(requests)
    /\ r \notin dropped
    /\ delivered[r] = <<>>
    /\ dropped' = dropped \cup {r}
    /\ UNCHANGED <<closed, avg_batch_size, max_batch_size, requests, queue, pending, pc, inflight, delivered, elapsed,
                   timer, window_age, burst, total_requests, total_batches>>
    /\ UNCHANGED <<cacheVars, clusterVars, fnVars>>

\* the BatchedPhoenixScorer is dropped, and with it the only sender of the
\* channel.  score() borrows the scorer, so no call is waiting any more: every
\* request was answered or its caller has gone.  The consumer task is not
\* told: it still receives the requests left in the channel, and after them
\* rx.recv() returns None, which disables that branch of the select!
Drop ==
    /\ ~closed
    /\ \A r \in 1 .. Len(requests) : r \in dropped \/ delivered[r] # <<>>
    /\ closed' = TRUE
    /\ UNCHANGED <<dropped, avg_batch_size, max_batch_size, requests, queue, pending, pc, inflight,
                   delivered, elapsed, timer, window_age, burst, total_requests, total_batches>>
    /\ UNCHANGED <<cacheVars, clusterVars, fnVars>>

\* a faulty statistics update (a flush counts as one request), to test C31
\* against
UpdateStatsOneRequest ==
    /\ pc = "stats"
    /\ total_requests' = total_requests + 1
    /\ total_batches' = total_batches + 1
    /\ avg_batch_size' = <<total_requests + 1, total_batches + 1>>
    /\ inflight' = NoCall
    /\ elapsed' = 0
    /\ timer' = 0
    /\ window_age' = 0
    /\ pc' = "select"
    /\ UNCHANGED <<closed, dropped, max_batch_size, requests, queue, pending, delivered, burst>>
    /\ UNCHANGED <<cacheVars, clusterVars, fnVars>>

\* flush_batch's statistics update, then batch_start = Instant::now() and the next select!
UpdateStats ==
    /\ pc = "stats"
    /\ total_requests' = total_requests + inflight.batch_size
    /\ total_batches' = total_batches + 1
    /\ inflight' = NoCall
    /\ elapsed' = 0
    /\ timer' = 0
    /\ window_age' = 0
    /\ avg_batch_size' = <<total_requests + inflight.batch_size, total_batches + 1>>
    /\ pc' = "select"
    /\ UNCHANGED <<closed, dropped, max_batch_size, requests, queue, pending, delivered, burst>>
    /\ UNCHANGED <<cacheVars, clusterVars, fnVars>>

\* one tick passes while the consumer waits in select! with no branch ready
Tick ==
    /\ pc = "select"
    /\ queue = <<>>
    /\ timer < max_wait_time
    /\ timer' = timer + 1
    /\ elapsed' = Min(elapsed + 1, max_wait_time)
    /\ window_age' = IF pending = <<>> THEN 0 ELSE Min(window_age + 1, max_wait_time + 1)
    /\ burst' = IF requests = <<>> \/ burst > max_wait_time THEN burst
                ELSE Min(burst + 1, max_wait_time)
    /\ UNCHANGED <<closed, dropped, avg_batch_size, max_batch_size, requests, queue, pending, pc, inflight, delivered,
                   total_requests, total_batches>>
    /\ UNCHANGED <<cacheVars, clusterVars, fnVars>>


\* --------------------------------------------------- caching decorator

\* the position of key k in the cache c, 0 when absent
LruIndex(c, k) == IF \E i \in 1 .. Len(c) : c[i].key = k
                  THEN CHOOSE i \in 1 .. Len(c) : c[i].key = k
                  ELSE 0

\* the cache c without its i-th entry
LruRemoveAt(c, i) == SubSeq(c, 1, i - 1) \o SubSeq(c, i + 1, Len(c))

\* LruCache::get on a present key: the entry becomes the most recently used
LruPromote(c, k) ==
    LET i == LruIndex(c, k) IN <<c[i]>> \o LruRemoveAt(c, i)

\* LruCache::pop
LruPop(c, k) ==
    LET i == LruIndex(c, k) IN IF i = 0 THEN c ELSE LruRemoveAt(c, i)

\* a faulty put (a full cache drops its most recently used entry), to test C16 against
LruPutEvictsNewest(c, e) ==
    LET i == LruIndex(c, e.key) IN
    IF i # 0 THEN <<e>> \o LruRemoveAt(c, i)
    ELSE IF Len(c) >= user_cache_size THEN <<e>> \o SubSeq(c, 2, Len(c))
    ELSE <<e>> \o c

\* LruCache::put: a present key is updated, a new key evicts the least
\* recently used entry of a full cache; either way the entry becomes the most
\* recently used
LruPut(c, e) ==
    LET i == LruIndex(c, e.key) IN
    IF i # 0 THEN <<e>> \o LruRemoveAt(c, i)
    ELSE IF Len(c) >= user_cache_size THEN <<e>> \o SubSeq(c, 1, user_cache_size - 1)
    ELSE <<e>> \o c

\* CacheEntry::new
CacheEntry(k, v) == [key |-> k, value |-> v, timestamp |-> now]

\* a faulty expiry test (an entry expires when its age reaches the TTL), to test C11 against
is_expired_at_ttl(e, ttl_secs) == now - e.timestamp >= ttl_secs

\* CacheEntry::is_expired
is_expired(e, ttl_secs) == now - e.timestamp > ttl_secs

Idle == [pc |-> "idle", call_no |-> 0, user_id |-> 0, candidates |-> <<>>, cached_results |-> <<>>,
         uncached_candidates |-> <<>>, uncached_indices |-> <<>>, result |-> <<>>]

None == [set |-> FALSE]

CacheInit ==
    /\ user_cache_size \in 1 .. MaxCacheSize
    /\ user_cache = <<>>
    /\ now = 0
    /\ cache_hits = 0
    /\ cache_misses = 0
    /\ inner_calls = 0
    /\ calls = [t \in CacheTasks |-> Idle]
    /\ ncalls = 0
    /\ last_done = None

\* the state of score()'s first pass before any candidate is looked at
LookupStart(c) ==
    [cache |-> c, hits |-> 0, misses |-> 0, cached_results |-> <<>>,
     uncached_candidates |-> <<>>, uncached_indices |-> <<>>]

\* a faulty iteration (an expired entry is counted neither as a hit nor as a miss),
\* to test C17 against
LookupOneExpiredUncounted(st, v, cands, idx) ==
    LET k == <<v, cands[idx]>>
        i == LruIndex(st.cache, k)
        hit == i # 0 /\ ~is_expired(st.cache[i], user_cache_ttl_secs) IN
    IF hit
    THEN [st EXCEPT !.cache = LruPromote(st.cache, k),
                    !.hits = @ + 1,
                    !.cached_results =
                        Append(@, [idx |-> idx,
                                   candidate |-> [tweet_id |-> cands[idx],
                                                  phoenix_scores |-> st.cache[i].value]])]
    ELSE [st EXCEPT !.cache = LruPop(st.cache, k),
                    !.misses = IF i # 0 THEN @ ELSE @ + 1,
                    !.uncached_candidates = Append(@, cands[idx]),
                    !.uncached_indices = Append(@, idx)]

\* a faulty iteration (the key leaves out the viewer), to test C15 against
LookupOneAnyViewer(st, v, cands, idx) ==
    LET k == <<1, cands[idx]>>
        i == LruIndex(st.cache, k)
        hit == i # 0 /\ ~is_expired(st.cache[i], user_cache_ttl_secs) IN
    IF hit
    THEN [st EXCEPT !.cache = LruPromote(st.cache, k),
                    !.hits = @ + 1,
                    !.cached_results =
                        Append(@, [idx |-> idx,
                                   candidate |-> [tweet_id |-> cands[idx],
                                                  phoenix_scores |-> st.cache[i].value]])]
    ELSE [st EXCEPT !.cache = LruPop(st.cache, k),
                    !.misses = @ + 1,
                    !.uncached_candidates = Append(@, cands[idx]),
                    !.uncached_indices = Append(@, idx)]

\* a faulty iteration (a miss is put in front of the earlier misses), to test C13 against
LookupOneMissFirst(st, v, cands, idx) ==
    LET k == <<v, cands[idx]>>
        i == LruIndex(st.cache, k)
        hit == i # 0 /\ ~is_expired(st.cache[i], user_cache_ttl_secs) IN
    IF hit
    THEN [st EXCEPT !.cache = LruPromote(st.cache, k),
                    !.hits = @ + 1,
                    !.cached_results =
                        Append(@, [idx |-> idx,
                                   candidate |-> [tweet_id |-> cands[idx],
                                                  phoenix_scores |-> st.cache[i].value]])]
    ELSE [st EXCEPT !.cache = LruPop(st.cache, k),
                    !.misses = @ + 1,
                    !.uncached_candidates = <<cands[idx]>> \o @,
                    !.uncached_indices = <<idx>> \o @]

\* one iteration of score()'s first pass, for the candidate at index idx
LookupOne(st, v, cands, idx) ==
    LET k == <<v, cands[idx]>>
        i == LruIndex(st.cache, k)
        hit == i # 0 /\ ~is_expired(st.cache[i], user_cache_ttl_secs) IN
    IF hit
    THEN [st EXCEPT !.cache = LruPromote(st.cache, k),
                    !.hits = @ + 1,
                    !.cached_results =
                        Append(@, [idx |-> idx,
                                   candidate |-> [tweet_id |-> cands[idx],
                                                  phoenix_scores |-> st.cache[i].value]])]
    ELSE [st EXCEPT !.cache = LruPop(st.cache, k),
                    !.misses = @ + 1,
                    !.uncached_candidates = Append(@, cands[idx]),
                    !.uncached_indices = Append(@, idx)]

RECURSIVE LookupPass(_, _, _, _)
\* score()'s first pass over the first n candidates
LookupPass(c, v, cands, n) ==
    IF n = 0 THEN LookupStart(c)
    ELSE LookupOne(LookupPass(c, v, cands, n - 1), v, cands, n)

RECURSIVE WriteBackSwappedKey(_, _, _, _)
\* a faulty write-back (the key is built as (tweet_id, user_id)), to test C10 against
WriteBackSwappedKey(c, v, newly_scored, n) ==
    IF n = 0 THEN c
    ELSE LruPut(WriteBackSwappedKey(c, v, newly_scored, n - 1),
                CacheEntry(<<newly_scored[n].tweet_id, v>>, newly_scored[n].phoenix_scores))

RECURSIVE WriteBack(_, _, _, _)
\* score()'s step 3 over the first n newly scored candidates
WriteBack(c, v, newly_scored, n) ==
    IF n = 0 THEN c
    ELSE LruPut(WriteBack(c, v, newly_scored, n - 1),
                CacheEntry(<<v, newly_scored[n].tweet_id>>, newly_scored[n].phoenix_scores))

\* a faulty merge (the cached results first, then the newly scored ones), to test C12 against
MergeHitsFirst(n, cached_results, uncached_indices, newly_scored) ==
    [j \in 1 .. Len(cached_results) |-> cached_results[j].candidate] \o newly_scored

\* score()'s step 4: the cached and the newly scored results at their original indices
Merge(n, cached_results, uncached_indices, newly_scored) ==
    [i \in 1 .. n |->
        IF \E j \in 1 .. Len(uncached_indices) : uncached_indices[j] = i
        THEN newly_scored[CHOOSE j \in 1 .. Len(uncached_indices) : uncached_indices[j] = i]
        ELSE cached_results[CHOOSE j \in 1 .. Len(cached_results) :
                                cached_results[j].idx = i].candidate]

\* the record of a completed score() call: its arguments, whether it succeeded,
\* how many of its candidates missed and when it returned
Done(v, c, ok, misses) ==
    [set |-> TRUE, user_id |-> v, candidates |-> c, ok |-> ok, misses |-> misses, at |-> now]

\* the call records cs when a later call starts: only the call started last
\* keeps its number
Earlier(cs) == [u \in DOMAIN cs |-> [cs[u] EXCEPT !.call_no = 0]]

\* a faulty score() (the lock of the lookup pass is kept until the wrapped
\* scorer has returned, so no lookup starts while a call is waiting), to test
\* C30 against
CacheScoreLockHeld(t, v, c) ==
    LET st == LookupPass(user_cache, v, c, Len(c)) IN
    /\ calls[t].pc = "idle"
    /\ \A u \in DOMAIN calls : calls[u].pc # "inner"
    /\ ncalls < MaxCalls
    /\ ncalls' = ncalls + 1
    /\ user_cache' = st.cache
    /\ cache_hits' = cache_hits + st.hits
    /\ cache_misses' = cache_misses + st.misses
    /\ IF st.uncached_candidates = <<>>
       THEN /\ calls' = [Earlier(calls) EXCEPT ![t] =
                   [pc |-> "idle", call_no |-> ncalls + 1, user_id |-> v, candidates |-> c,
                    cached_results |-> st.cached_results,
                    uncached_candidates |-> <<>>, uncached_indices |-> <<>>,
                    result |-> <<Ok(Merge(Len(c), st.cached_results, <<>>, <<>>))>>]]
            /\ inner_calls' = inner_calls
            /\ last_done' = Done(v, c, TRUE, 0)
       ELSE /\ calls' = [Earlier(calls) EXCEPT ![t] =
                   [pc |-> "inner", call_no |-> ncalls + 1, user_id |-> v, candidates |-> c,
                    cached_results |-> st.cached_results,
                    uncached_candidates |-> st.uncached_candidates,
                    uncached_indices |-> st.uncached_indices,
                    result |-> <<>>]]
            /\ inner_calls' = inner_calls + 1
            /\ last_done' = None
    /\ UNCHANGED <<user_cache_size, now>>
    /\ UNCHANGED <<batchVars, clusterVars, fnVars>>

\* score() up to the call of the wrapped scorer; with no miss, to its return
CacheScore(t, v, c) ==
    LET st == LookupPass(user_cache, v, c, Len(c)) IN
    /\ calls[t].pc = "idle"
    /\ ncalls < MaxCalls
    /\ ncalls' = ncalls + 1
    /\ user_cache' = st.cache
    /\ cache_hits' = cache_hits + st.hits
    /\ cache_misses' = cache_misses + st.misses
    /\ IF st.uncached_candidates = <<>>
       THEN /\ calls' = [Earlier(calls) EXCEPT ![t] =
                   [pc |-> "idle", call_no |-> ncalls + 1, user_id |-> v, candidates |-> c,
                    cached_results |-> st.cached_results,
                    uncached_candidates |-> <<>>, uncached_indices |-> <<>>,
                    result |-> <<Ok(Merge(Len(c), st.cached_results, <<>>, <<>>))>>]]
            /\ inner_calls' = inner_calls
            /\ last_done' = Done(v, c, TRUE, 0)
       ELSE /\ calls' = [Earlier(calls) EXCEPT ![t] =
                   [pc |-> "inner", call_no |-> ncalls + 1, user_id |-> v, candidates |-> c,
                    cached_results |-> st.cached_results,
                    uncached_candidates |-> st.uncached_candidates,
                    uncached_indices |-> st.uncached_indices,
                    result |-> <<>>]]
            /\ inner_calls' = inner_calls + 1
            /\ last_done' = None
    /\ UNCHANGED <<user_cache_size, now>>
    /\ UNCHANGED <<batchVars, clusterVars, fnVars>>

\* the wrapped scorer returns Ok: steps 3 and 4 of score()
CacheInnerOk(t) ==
    LET call == calls[t]
        newly_scored == InnerScore(call.user_id, call.uncached_candidates) IN
    /\ call.pc = "inner"
    /\ user_cache' = WriteBack(user_cache, call.user_id, newly_scored, Len(newly_scored))
    /\ calls' = [calls EXCEPT ![t].pc = "idle",
                              ![t].result = <<Ok(Merge(Len(call.candidates), call.cached_results,
                                                       call.uncached_indices, newly_scored))>>]
    /\ last_done' = Done(call.user_id, call.candidates, TRUE, Len(call.uncached_indices))
    /\ UNCHANGED <<user_cache_size, now, cache_hits, cache_misses, inner_calls, ncalls>>
    /\ UNCHANGED <<batchVars, clusterVars, fnVars>>

\* a faulty error path (the cache is emptied when the wrapped scorer fails), to test C14 against
CacheInnerErrClears(t, e) ==
    /\ calls[t].pc = "inner"
    /\ calls' = [calls EXCEPT ![t].pc = "idle", ![t].result = <<Err(e)>>]
    /\ user_cache' = <<>>
    /\ last_done' = Done(calls[t].user_id, calls[t].candidates, FALSE,
                         Len(calls[t].uncached_indices))
    /\ UNCHANGED <<user_cache_size, now, cache_hits, cache_misses, inner_calls, ncalls>>
    /\ UNCHANGED <<batchVars, clusterVars, fnVars>>

\* the wrapped scorer returns Err: score() returns it
CacheInnerErr(t, e) ==
    /\ calls[t].pc = "inner"
    /\ calls' = [calls EXCEPT ![t].pc = "idle", ![t].result = <<Err(e)>>]
    /\ last_done' = Done(calls[t].user_id, calls[t].candidates, FALSE,
                         Len(calls[t].uncached_indices))
    /\ UNCHANGED <<user_cache_size, user_cache, now, cache_hits, cache_misses, inner_calls,
                   ncalls>>
    /\ UNCHANGED <<batchVars, clusterVars, fnVars>>

\* cache_hit_rate(), as the fraction num / den
cache_hit_rate ==
    LET hits == cache_hits
        misses == cache_misses
        total == hits + misses IN
    IF total = 0 THEN [num |-> 0, den |-> 1] ELSE [num |-> hits, den |-> total]

\* clear_caches()
clear_caches ==
    /\ user_cache' = <<>>
    /\ last_done' = None
    /\ UNCHANGED <<user_cache_size, now, cache_hits, cache_misses, inner_calls, calls, ncalls>>
    /\ UNCHANGED <<batchVars, clusterVars, fnVars>>

\* one second passes
CacheTick ==
    /\ now < MaxNow
    /\ now' = now + 1
    /\ UNCHANGED <<user_cache_size, user_cache, cache_hits, cache_misses, inner_calls, calls,
                   ncalls, last_done>>
    /\ UNCHANGED <<batchVars, clusterVars, fnVars>>


\* --------------------------------------------------- clustering service
\* Rates and preferences are kept in tenths: 5 is 0.5 and 10 is 1.0.

\* ClusterProfile::default()
ClusterProfile_default ==
    [cluster_id |-> 0, video_preference |-> 5, image_preference |-> 5, text_preference |-> 5,
     diversity_preference |-> 5, engagement_multiplier |-> 10]

\* default_cluster()
default_cluster == ClusterProfile_default

\* the profiles a caller assigns (test_cluster_assignment: cluster 3, video 0.8)
AssignProfiles ==
    {[ClusterProfile_default EXCEPT !.cluster_id = 3, !.video_preference = 8],
     [ClusterProfile_default EXCEPT !.cluster_id = 1, !.engagement_multiplier = 13]}

\* a UserFeatures value for viewer u
Features(u, video, overall) ==
    [user_id |-> u, video_engagement_rate |-> video, image_engagement_rate |-> 3,
     text_engagement_rate |-> 4, diversity_score |-> 6, overall_engagement_rate |-> overall]

\* the feature batches passed to refresh_clusters
FeatureBatches ==
    {<<>>, <<Features(1, 8, 12)>>, <<Features(1, 8, 12), Features(2, 2, 9)>>,
     <<Features(2, 2, 9), Features(2, 7, 11)>>}

\* HashMap::insert
Insert(m, k, v) == [x \in (DOMAIN m) \cup {k} |-> IF x = k THEN v ELSE m[x]]

\* find_nearest_cluster, for num_clusters > 0
find_nearest_cluster(features) == features.user_id % num_clusters

\* features_to_profile
features_to_profile(features, cluster_id) ==
    [cluster_id |-> cluster_id,
     video_preference |-> features.video_engagement_rate,
     image_preference |-> features.image_engagement_rate,
     text_preference |-> features.text_engagement_rate,
     diversity_preference |-> features.diversity_score,
     engagement_multiplier |-> features.overall_engagement_rate]

NoRefresh == [pc |-> "idle", user_features |-> <<>>, idx |-> 0, new_clusters |-> <<>>]

NotGot == [set |-> FALSE]

ClusterInit ==
    /\ num_clusters \in 0 .. MaxClusters
    /\ clusters = <<>>
    /\ refresh = NoRefresh
    /\ got = NotGot
    /\ assigned = <<>>

\* a get_user_cluster that falls back on some stored profile, to test C19 against
get_user_cluster_stored(user_id) ==
    IF user_id \in DOMAIN clusters THEN clusters[user_id]
    ELSE IF DOMAIN clusters = {} THEN default_cluster
    ELSE clusters[CHOOSE u \in DOMAIN clusters : TRUE]

\* get_user_cluster: the stored profile, or the default
get_user_cluster(user_id) ==
    IF user_id \in DOMAIN clusters THEN clusters[user_id] ELSE default_cluster

\* a call of get_user_cluster; known records whether the map had an entry
GetUserCluster(user_id) ==
    /\ got' = [set |-> TRUE, user_id |-> user_id, known |-> user_id \in DOMAIN clusters,
               profile |-> get_user_cluster(user_id)]
    /\ UNCHANGED <<num_clusters, clusters, refresh, assigned>>
    /\ UNCHANGED <<batchVars, cacheVars, fnVars>>

\* a faulty assign (a viewer that has a profile keeps it), to test C21 against
assign_if_absent(user_id, profile) ==
    /\ clusters' = IF user_id \in DOMAIN clusters THEN clusters
                   ELSE Insert(clusters, user_id, profile)
    /\ assigned' = Insert(assigned, user_id, profile)
    /\ UNCHANGED <<num_clusters, refresh, got>>
    /\ UNCHANGED <<batchVars, cacheVars, fnVars>>

\* assign_user_cluster
assign_user_cluster(user_id, profile) ==
    /\ clusters' = Insert(clusters, user_id, profile)
    /\ assigned' = Insert(assigned, user_id, profile)
    /\ UNCHANGED <<num_clusters, refresh, got>>
    /\ UNCHANGED <<batchVars, cacheVars, fnVars>>

\* cluster_stats: the sizes are counted into a vector of num_clusters entries,
\* cluster i at index i + 1 here; indexing it with a cluster_id that is not
\* below num_clusters panics
cluster_stats ==
    IF \E u \in DOMAIN clusters : clusters[u].cluster_id >= num_clusters
    THEN [panic |-> TRUE]
    ELSE [panic |-> FALSE,
          total_users |-> Cardinality(DOMAIN clusters),
          cluster_sizes |->
              [i \in 1 .. num_clusters |->
                  Cardinality({u \in DOMAIN clusters : clusters[u].cluster_id = i - 1})],
          num_clusters |-> num_clusters]

\* refresh_clusters is called: new_clusters is empty
RefreshStart(user_features) ==
    /\ refresh.pc = "idle"
    /\ refresh' = [pc |-> "loop", user_features |-> user_features, idx |-> 0,
                   new_clusters |-> <<>>]
    /\ UNCHANGED <<num_clusters, clusters, got, assigned>>
    /\ UNCHANGED <<batchVars, cacheVars, fnVars>>

\* one iteration of refresh_clusters' loop
RefreshStep ==
    LET user_feature == refresh.user_features[refresh.idx + 1]
        cluster_id == find_nearest_cluster(user_feature)
        profile == features_to_profile(user_feature, cluster_id) IN
    /\ refresh.pc = "loop"
    /\ refresh.idx < Len(refresh.user_features)
    /\ num_clusters > 0
    /\ refresh' = [refresh EXCEPT !.idx = @ + 1,
                                  !.new_clusters = Insert(@, user_feature.user_id, profile)]
    /\ UNCHANGED <<num_clusters, clusters, got, assigned>>
    /\ UNCHANGED <<batchVars, cacheVars, fnVars>>

\* with num_clusters = 0 the remainder in find_nearest_cluster panics: the
\* call ends and the map is not touched
RefreshPanic ==
    /\ refresh.pc = "loop"
    /\ refresh.idx < Len(refresh.user_features)
    /\ num_clusters = 0
    /\ refresh' = NoRefresh
    /\ UNCHANGED <<num_clusters, clusters, got, assigned>>
    /\ UNCHANGED <<batchVars, cacheVars, fnVars>>

\* a faulty last step (the new assignments are added to the old map), to test C20 against
RefreshMerge ==
    /\ refresh.pc = "loop"
    /\ refresh.idx = Len(refresh.user_features)
    /\ clusters' = [u \in (DOMAIN clusters) \cup (DOMAIN refresh.new_clusters) |->
                        IF u \in DOMAIN refresh.new_clusters THEN refresh.new_clusters[u]
                        ELSE clusters[u]]
    /\ refresh' = NoRefresh
    /\ assigned' = <<>>
    /\ UNCHANGED <<num_clusters, got>>
    /\ UNCHANGED <<batchVars, cacheVars, fnVars>>

\* the last step of refresh_clusters: *clusters = new_clusters under the write lock
RefreshSwap ==
    /\ refresh.pc = "loop"
    /\ refresh.idx = Len(refresh.user_features)
    /\ clusters' = refresh.new_clusters
    /\ refresh' = NoRefresh
    /\ assigned' = <<>>
    /\ UNCHANGED <<num_clusters, got>>
    /\ UNCHANGED <<batchVars, cacheVars, fnVars>>

\* --------------------------------------------------- scoring functions

NoFn == [fn |-> "none"]

\* util::snowflake::TWITTER_EPOCH (1288834974657 ms), in ticks of half an hour
TWITTER_EPOCH == 716019

\* no scoring function has been called
FnIdle ==
    /\ fn_call = NoFn
    /\ fn_ret = NoFn
    /\ timestamp_cache = <<>>
    /\ filter_now = TWITTER_EPOCH

\* the scored lists handed to select_top_k: the scores of the items, the item
\* being known by its place in the list
ItemLists == UNION {[1 .. n -> {0, 1, 2}] : n \in 0 .. MaxItems}

\* the orders in which a slice of n items can be rearranged
Perms(n) == {p \in [1 .. n -> 1 .. n] : \A i, j \in 1 .. n : i # j => p[i] # p[j]}

\* slice::select_nth_unstable_by(index, compare) of the standard library, for
\* a comparator that puts the higher score first: any rearrangement in which no
\* item in front of the one at index (counted from 0) has a lower score than
\* it, and no item behind it has a higher one
select_nth_unstable_by(items, index) ==
    {p \in Perms(Len(items)) :
        /\ \A i \in 1 .. index : items[p[i]] >= items[p[index + 1]]
        /\ \A i \in index + 2 .. Len(items) : items[p[i]] <= items[p[index + 1]]}

\* a faulty selection (the comparator puts the lower score first), to test
\* C22 against
select_top_k_ascending(items, k) ==
    IF k >= Len(items) THEN {[i \in 1 .. Len(items) |-> i]}
    ELSE {SubSeq(p, 1, k) :
            p \in {q \in Perms(Len(items)) :
                     /\ \A i \in 1 .. k : items[q[i]] <= items[q[k + 1]]
                     /\ \A i \in k + 2 .. Len(items) :
                            items[q[i]] >= items[q[k + 1]]}}

\* select_top_k: the lists it can return, each item named by its place in the
\* input
select_top_k(items, k) ==
    IF k >= Len(items) THEN {[i \in 1 .. Len(items) |-> i]}
    ELSE {SubSeq(p, 1, k) : p \in select_nth_unstable_by(items, k)}

\* a call of select_top_k
SelectTopK ==
    \E items \in ItemLists, k \in 0 .. MaxItems + 1 :
        \E r \in select_top_k(items, k) :
            /\ fn_call' = [fn |-> "select_top_k", items |-> items, k |-> k]
            /\ fn_ret' = [fn |-> "select_top_k", picked |-> r]
            /\ UNCHANGED <<batchVars, cacheVars, clusterVars, filterVars>>

\* params.rs. A weight is written in hundredths (REPLY_WEIGHT 27.0 is 2700),
\* a probability in tenths (0.8 is 8), and so a score in thousandths (17.0 is
\* 17000).
MIN_VIDEO_DURATION_MS == 2000
FAVORITE_WEIGHT == 100
REPLY_WEIGHT == 2700
RETWEET_WEIGHT == 100
PHOTO_EXPAND_WEIGHT == 50
CLICK_WEIGHT == 50
PROFILE_CLICK_WEIGHT == 1200
VQV_WEIGHT == 30
SHARE_WEIGHT == 100
SHARE_VIA_DM_WEIGHT == 200
SHARE_VIA_COPY_LINK_WEIGHT == 150
DWELL_WEIGHT == 10
QUOTE_WEIGHT == 200
QUOTED_CLICK_WEIGHT == 50
CONT_DWELL_TIME_WEIGHT == 5
FOLLOW_AUTHOR_WEIGHT == 400
BOOKMARK_WEIGHT == 400
NOT_INTERESTED_WEIGHT == -7400
BLOCK_AUTHOR_WEIGHT == -15000
MUTE_AUTHOR_WEIGHT == -5000
REPORT_WEIGHT == -36900
NEGATIVE_SCORES_OFFSET == 0

\* f64::max and f64::abs
Max(a, b) == IF a > b THEN a ELSE b

abs(x) == IF x < 0 THEN 0 - x ELSE x

WEIGHTS_SUM ==
    FAVORITE_WEIGHT + REPLY_WEIGHT + RETWEET_WEIGHT + PHOTO_EXPAND_WEIGHT + CLICK_WEIGHT
    + PROFILE_CLICK_WEIGHT + VQV_WEIGHT + SHARE_WEIGHT + SHARE_VIA_DM_WEIGHT
    + SHARE_VIA_COPY_LINK_WEIGHT + DWELL_WEIGHT + QUOTE_WEIGHT + QUOTED_CLICK_WEIGHT
    + CONT_DWELL_TIME_WEIGHT + FOLLOW_AUTHOR_WEIGHT + BOOKMARK_WEIGHT

NEGATIVE_WEIGHTS_SUM ==
    abs(NOT_INTERESTED_WEIGHT) + abs(BLOCK_AUTHOR_WEIGHT) + abs(MUTE_AUTHOR_WEIGHT)
    + abs(REPORT_WEIGHT)

\* Option<T>: Some(x), and None as above
Some(x) == [set |-> TRUE, value |-> x]

unwrap_or(o, d) == IF o.set THEN o.value ELSE d

\* the probabilities of PhoenixScores, in the order of compute_weighted_score
ScoreFields ==
    <<"favorite_score", "reply_score", "retweet_score", "photo_expand_score", "click_score",
      "profile_click_score", "vqv_score", "share_score", "share_via_dm_score",
      "share_via_copy_link_score", "dwell_score", "quote_score", "quoted_click_score",
      "dwell_time", "follow_author_score", "not_interested_score", "block_author_score",
      "mute_author_score", "report_score">>

\* PostCandidate::default(): no probability and no video
PostCandidate_default ==
    [phoenix_scores |-> [f \in Range(ScoreFields) |-> None], video_duration_ms |-> None]

\* the candidates the scorers are given: the probabilities of a like, a reply,
\* a video view and a "not interested" absent, zero or positive, with no video
\* or a video at, below or above the threshold; and one with every probability
\* at 0.1
Candidates ==
    {[phoenix_scores |->
         [PostCandidate_default.phoenix_scores EXCEPT
             !.favorite_score = f, !.reply_score = r, !.vqv_score = q,
             !.not_interested_score = x],
      video_duration_ms |-> d] :
        f \in {None, Some(0), Some(8)}, r \in {None, Some(6)}, q \in {None, Some(10)},
        x \in {None, Some(0), Some(5)},
        d \in {None, Some(MIN_VIDEO_DURATION_MS), Some(MIN_VIDEO_DURATION_MS + 1)}}
    \cup {[phoenix_scores |-> [f \in Range(ScoreFields) |-> Some(1)],
           video_duration_ms |-> Some(MIN_VIDEO_DURATION_MS - 1)]}

\* a faulty gate (a video of exactly the threshold passes), to test C25 against
vqv_weight_at_threshold(candidate) ==
    IF candidate.video_duration_ms.set
       /\ candidate.video_duration_ms.value >= MIN_VIDEO_DURATION_MS
    THEN VQV_WEIGHT ELSE 0

\* WeightedScorer::vqv_weight_eligibility, in hundredths
vqv_weight_eligibility(candidate) ==
    IF candidate.video_duration_ms.set
       /\ candidate.video_duration_ms.value > MIN_VIDEO_DURATION_MS
    THEN VQV_WEIGHT ELSE 0

\* PersonalizedWeightedScorer::personalized_vqv_weight, in thousandths: the
\* preference of the cluster is in tenths
personalized_vqv_weight(candidate, cluster) ==
    IF candidate.video_duration_ms.set
       /\ candidate.video_duration_ms.value > MIN_VIDEO_DURATION_MS
    THEN VQV_WEIGHT * cluster.video_preference * 2 ELSE 0

\* WeightedScorer::offset_score, on thousandths
offset_score(combined_score) ==
    IF WEIGHTS_SUM = 0 THEN Max(combined_score, 0)
    ELSE IF combined_score < 0
         THEN ((((combined_score + NEGATIVE_WEIGHTS_SUM * 10) * 100) \div WEIGHTS_SUM)
               * (NEGATIVE_SCORES_OFFSET * 10)) \div 1000
         ELSE combined_score + NEGATIVE_SCORES_OFFSET * 10

\* the weights of compute_weighted_score, in its order
ScoreWeights(vqv_weight) ==
    <<FAVORITE_WEIGHT, REPLY_WEIGHT, RETWEET_WEIGHT, PHOTO_EXPAND_WEIGHT, CLICK_WEIGHT,
      PROFILE_CLICK_WEIGHT, vqv_weight, SHARE_WEIGHT, SHARE_VIA_DM_WEIGHT,
      SHARE_VIA_COPY_LINK_WEIGHT, DWELL_WEIGHT, QUOTE_WEIGHT, QUOTED_CLICK_WEIGHT,
      CONT_DWELL_TIME_WEIGHT, FOLLOW_AUTHOR_WEIGHT, NOT_INTERESTED_WEIGHT,
      BLOCK_AUTHOR_WEIGHT, MUTE_AUTHOR_WEIGHT, REPORT_WEIGHT>>

\* the loop of compute_weighted_score: combined_score after the first n terms
RECURSIVE Combined(_, _, _)
Combined(scores, weights, n) ==
    IF n = 0 THEN 0 ELSE Combined(scores, weights, n - 1) + scores[n] * weights[n]

\* a faulty inner product (the weights of the like and of the reply are
\* exchanged), to test C23 against
compute_weighted_score_swapped(candidate) ==
    LET s == candidate.phoenix_scores
        scores == [i \in 1 .. Len(ScoreFields) |-> unwrap_or(s[ScoreFields[i]], 0)]
        w == ScoreWeights(vqv_weight_eligibility(candidate))
        weights == [w EXCEPT ![1] = w[2], ![2] = w[1]]
    IN  offset_score(Combined(scores, weights, Len(scores)))

\* WeightedScorer::compute_weighted_score, in thousandths
compute_weighted_score(candidate) ==
    LET s == candidate.phoenix_scores
        vqv_weight == vqv_weight_eligibility(candidate)
        scores == [i \in 1 .. Len(ScoreFields) |-> unwrap_or(s[ScoreFields[i]], 0)]
        weights == ScoreWeights(vqv_weight)
    IN  offset_score(Combined(scores, weights, Len(scores)))

\* util::score_normalizer::normalize_score
normalize_score(candidate, score) == Max(score, 0)

\* WeightedScorer::score for one candidate
WeightedScore ==
    \E c \in Candidates :
        /\ fn_call' = [fn |-> "weighted_score", candidate |-> c]
        /\ fn_ret' = [fn |-> "weighted_score",
                      weighted_score |-> normalize_score(c, compute_weighted_score(c))]
        /\ UNCHANGED <<batchVars, cacheVars, clusterVars, filterVars>>

\* vqv_weight_eligibility as compute_weighted_score calls it
VqvWeight ==
    \E c \in Candidates :
        /\ fn_call' = [fn |-> "vqv_weight_eligibility", candidate |-> c]
        /\ fn_ret' = [fn |-> "vqv_weight_eligibility", weight |-> vqv_weight_eligibility(c)]
        /\ UNCHANGED <<batchVars, cacheVars, clusterVars, filterVars>>

\* personalized_vqv_weight as compute_personalized_score calls it, with the
\* profile of the viewer's cluster
PersonalizedVqvWeight ==
    \E c \in Candidates, cluster \in AssignProfiles \cup {default_cluster} :
        /\ fn_call' = [fn |-> "personalized_vqv_weight", candidate |-> c, cluster |-> cluster]
        /\ fn_ret' = [fn |-> "personalized_vqv_weight",
                      weight |-> personalized_vqv_weight(c, cluster)]
        /\ UNCHANGED <<batchVars, cacheVars, clusterVars, filterVars>>

\* params.rs: the half-life in hours, and the decay 0.8 in tenths
FRESHNESS_DECAY_HOURS == 6
AUTHOR_DIVERSITY_DECAY == 8

\* i32::MAX; i32::MIN is -I32_MAX - 1
I32_MAX == 2147483647

\* b to the power e, for a natural number e
RECURSIVE Pow(_, _)
Pow(b, e) == IF e = 0 THEN 1 ELSE b * Pow(b, e - 1)

\* an f64 that is the exact fraction num / den, and the two values a power
\* takes once it has left the range of f64
Frac(num, den) == [kind |-> "finite", num |-> num, den |-> den]

F64Zero == [kind |-> "zero"]

F64Inf == [kind |-> "inf"]

\* f64 multiplication of a positive score with a power
Times(score, x) ==
    IF x.kind = "finite" THEN Frac(score * x.num, x.den) ELSE x

\* the base scores given to the decay functions, all positive
BaseScores == {1, 3, 100}

\* the ages given to score_with_freshness: whole numbers of half-lives
Ages == {h * FRESHNESS_DECAY_HOURS : h \in 0 .. MaxHalfLives}

\* a faulty decay (a straight line through 100% at age 0 and 50% at one
\* half-life), to test C26 against
score_with_linear_decay(base_score, age_hours) ==
    Frac(base_score * Max(2 * FRESHNESS_DECAY_HOURS - age_hours, 0),
         2 * FRESHNESS_DECAY_HOURS)

\* BatchScorer::score_with_freshness, for an age that is a whole number of
\* half-lives: 0.5f64.powf(n) is 1 / 2^n
score_with_freshness(base_score, age_hours) ==
    LET decay == Frac(1, Pow(2, age_hours \div FRESHNESS_DECAY_HOURS))
    IN  Times(base_score, decay)

ScoreWithFreshness ==
    \E base_score \in BaseScores, age_hours \in Ages :
        /\ fn_call' = [fn |-> "score_with_freshness", base_score |-> base_score,
                       age_hours |-> age_hours]
        /\ fn_ret' = [fn |-> "score_with_freshness",
                      value |-> score_with_freshness(base_score, age_hours)]
        /\ UNCHANGED <<batchVars, cacheVars, clusterVars, filterVars>>

\* a u32 as its top bit and its lower 31 bits: the number is hi * 2^31 + lo
U32(hi, lo) == [hi |-> hi, lo |-> lo]

\* the author-post counts given to apply_diversity_penalty: the small ones,
\* and the ones next to i32::MAX and to u32::MAX
PostCounts ==
    {U32(0, n) : n \in 0 .. MaxRank}
    \cup {U32(0, I32_MAX - 1), U32(0, I32_MAX)}
    \cup {U32(1, 0), U32(1, 1)}
    \cup {U32(1, I32_MAX - n) : n \in 0 .. MaxRank}

\* `n as i32`: the same 32 bits read as a signed number
as_i32(n) == IF n.hi = 0 THEN n.lo ELSE (n.lo - I32_MAX) - 1

\* `a - 1` on i32: at i32::MIN the subtraction overflows, which panics in a
\* build with overflow checks and wraps to i32::MAX in one without
minus_one(a, overflow_checks) ==
    IF a = (0 - I32_MAX) - 1
    THEN IF overflow_checks THEN [panic |-> TRUE] ELSE [panic |-> FALSE, value |-> I32_MAX]
    ELSE [panic |-> FALSE, value |-> a - 1]

\* f64::powi of the decay: exact for the small exponents; the large ones of
\* PostCounts are beyond the range of f64 (0.8^e is 0 for e > 7700 and
\* infinite for e < -3200)
powi(e) ==
    IF e >= 0 /\ e <= MaxRank THEN Frac(Pow(AUTHOR_DIVERSITY_DECAY, e), Pow(10, e))
    ELSE IF e < 0 /\ e >= 0 - (MaxRank + 2)
         THEN Frac(Pow(10, 0 - e), Pow(AUTHOR_DIVERSITY_DECAY, 0 - e))
    ELSE IF e > 0 THEN F64Zero ELSE F64Inf

\* BatchScorer::apply_diversity_penalty, in a build with or without overflow
\* checks
apply_diversity_penalty(score, author_post_count, overflow_checks) ==
    IF author_post_count.hi = 0 /\ author_post_count.lo <= 1
    THEN [panic |-> FALSE, value |-> Frac(score, 1)]
    ELSE LET e == minus_one(as_i32(author_post_count), overflow_checks)
         IN  IF e.panic THEN [panic |-> TRUE]
             ELSE [panic |-> FALSE, value |-> Times(score, powi(e.value))]

ApplyDiversityPenalty ==
    \E score \in BaseScores, author_post_count \in PostCounts, overflow_checks \in BOOLEAN :
        /\ fn_call' = [fn |-> "apply_diversity_penalty", score |-> score,
                       author_post_count |-> author_post_count]
        /\ fn_ret' = [fn |-> "apply_diversity_penalty",
                      ret |-> apply_diversity_penalty(score, author_post_count,
                                                      overflow_checks)]
        /\ UNCHANGED <<batchVars, cacheVars, clusterVars, filterVars>>

\* the viewers and the rollout percentages (a u8) given to the rollout gate
RolloutUsers == {0, 1, 49, 50, 99, 100, 150, 12345}

Percents == {0, 1, 50, 99, 100, 101, 255}

\* a faulty gate (the viewer whose remainder equals the percentage is let
\* in), to test C29 against
is_in_rollout_inclusive(user_id, percent) ==
    IF percent >= 100 THEN TRUE
    ELSE IF percent = 0 THEN FALSE
    ELSE (user_id % 100) <= percent

\* config.rs: is_in_rollout
is_in_rollout(user_id, percent) ==
    IF percent >= 100 THEN TRUE
    ELSE IF percent = 0 THEN FALSE
    ELSE (user_id % 100) < percent

\* Config::should_use_caching, should_use_batching and
\* should_use_personalization: the feature's enabled flag and its percentage
should_use(enabled, rollout_percent, user_id) ==
    enabled /\ is_in_rollout(user_id, rollout_percent)

IsInRollout ==
    \E user_id \in RolloutUsers, percent \in Percents :
        /\ fn_call' = [fn |-> "is_in_rollout", user_id |-> user_id, percent |-> percent]
        /\ fn_ret' = [fn |-> "is_in_rollout", ret |-> is_in_rollout(user_id, percent)]
        /\ UNCHANGED <<batchVars, cacheVars, clusterVars, filterVars>>

ShouldUse ==
    \E feature \in {"caching", "batching", "personalization"}, enabled \in BOOLEAN,
       user_id \in RolloutUsers, percent \in Percents :
        /\ fn_call' = [fn |-> "should_use", feature |-> feature, enabled |-> enabled,
                       user_id |-> user_id, percent |-> percent]
        /\ fn_ret' = [fn |-> "should_use", ret |-> should_use(enabled, percent, user_id)]
        /\ UNCHANGED <<batchVars, cacheVars, clusterVars, filterVars>>

\* the batching decorator before its first request, with a fixed configuration
BatchIdle ==
    /\ BatchInit
    /\ max_batch_size = 1

\* the caching decorator before its first call, with a fixed configuration
CacheIdle ==
    /\ CacheInit
    /\ user_cache_size = 1

\* the clustering service before its first call, with a fixed configuration
ClusterIdle ==
    /\ ClusterInit
    /\ num_clusters = 1

Init == BatchInit /\ CacheIdle /\ ClusterIdle /\ FnIdle

\* the batching decorator with its callers, its consumer task and the clock
Next ==
    \/ \E v \in Viewers, c \in CandLists : Enqueue(v, c)
    \/ Recv
    \/ TimerFire
    \/ ScorerOk
    \/ \E e \in Errors : ScorerErr(e)
    \/ UpdateStats
    \/ Tick

Spec == Init /\ [][Next]_vars

\* the caching decorator called by one task: the calls are sequential
SeqClear ==
    /\ calls[1].pc = "idle"
    /\ clear_caches

CacheSeqNext ==
    \/ \E v \in Viewers, c \in CacheCandLists : CacheScore(1, v, c)
    \/ CacheInnerOk(1)
    \/ \E e \in Errors : CacheInnerErr(1, e)
    \/ SeqClear
    \/ CacheTick

CacheSeqInit == BatchIdle /\ CacheInit /\ ClusterIdle /\ FnIdle

SpecCacheSeq == CacheSeqInit /\ [][CacheSeqNext]_vars

\* the caching decorator called by several tasks: their calls overlap; the
\* cache has room for two entries
CacheConcInit ==
    /\ BatchIdle
    /\ CacheInit
    /\ user_cache_size = 2
    /\ ClusterIdle
    /\ FnIdle

CacheNext ==
    \/ \E t \in CacheTasks, v \in Viewers, c \in CandLists : CacheScore(t, v, c)
    \/ \E t \in CacheTasks : CacheInnerOk(t)
    \/ \E t \in CacheTasks, e \in Errors : CacheInnerErr(t, e)
    \/ clear_caches
    \/ CacheTick

SpecCache == CacheConcInit /\ [][CacheNext]_vars

\* the clustering service with its callers and one refresh at a time
ClusterServiceInit == BatchIdle /\ CacheIdle /\ ClusterInit /\ FnIdle

ClusterNext ==
    \/ \E u \in ClusterUsers : GetUserCluster(u)
    \/ \E u \in ClusterUsers, p \in AssignProfiles : assign_user_cluster(u, p)
    \/ \E b \in FeatureBatches : RefreshStart(b)
    \/ RefreshStep
    \/ RefreshPanic
    \/ RefreshSwap

SpecClusters == ClusterServiceInit /\ [][ClusterNext]_vars

\* The same system with one kind of request, for the progress property: the
\* consumer task is scheduled (Recv, TimerFire, UpdateStats), the wrapped scorer's
\* call returns (ScorerOk or ScorerErr) and time passes (Tick).
LiveNext ==
    \/ Enqueue(1, <<1>>)
    \/ Recv
    \/ TimerFire
    \/ ScorerOk
    \/ \E e \in Errors : ScorerErr(e)
    \/ UpdateStats
    \/ Tick

LiveSpec ==
    /\ Init
    /\ [][LiveNext]_vars
    /\ WF_vars(Recv)
    /\ WF_vars(TimerFire)
    /\ WF_vars(ScorerOk \/ \E e \in Errors : ScorerErr(e))
    /\ WF_vars(UpdateStats)
    /\ WF_vars(Tick)

\* the batching decorator with a full-size bound, called for one viewer by
\* callers that can disappear while they wait
CancelInit ==
    /\ BatchInit
    /\ max_batch_size = MaxBatchSize
    /\ CacheIdle
    /\ ClusterIdle
    /\ FnIdle

CancelNext ==
    \/ \E c \in CandLists : Enqueue(1, c)
    \/ \E r \in 1 .. NumReq : Cancel(r)
    \/ Recv
    \/ TimerFire
    \/ ScorerOk
    \/ \E e \in Errors : ScorerErr(e)
    \/ UpdateStats
    \/ Tick

SpecCancel == CancelInit /\ [][CancelNext]_vars

\* the batching decorator called for one viewer by callers that can
\* disappear, and dropped at some time; the consumer task is scheduled, the
\* wrapped scorer's call returns and time passes
DropInit ==
    /\ BatchInit
    /\ max_batch_size = MaxBatchSize
    /\ CacheIdle
    /\ ClusterIdle
    /\ FnIdle

DropNext ==
    \/ \E c \in CandLists : Enqueue(1, c)
    \/ \E r \in 1 .. NumReq : Cancel(r)
    \/ Drop
    \/ Recv
    \/ TimerFire
    \/ ScorerOk
    \/ \E e \in Errors : ScorerErr(e)
    \/ UpdateStats
    \/ Tick

SpecDrop ==
    /\ DropInit
    /\ [][DropNext]_vars
    /\ WF_vars(Recv)
    /\ WF_vars(TimerFire)
    /\ WF_vars(ScorerOk \/ \E e \in Errors : ScorerErr(e))
    /\ WF_vars(UpdateStats)
    /\ WF_vars(Tick)

\* the scoring functions, each called with arguments of every kind
ScoringInit == BatchIdle /\ CacheIdle /\ ClusterIdle /\ FnIdle

ScoringNext ==
    \/ SelectTopK
    \/ WeightedScore
    \/ VqvWeight
    \/ PersonalizedVqvWeight
    \/ ScoreWithFreshness
    \/ ApplyDiversityPenalty
    \/ IsInRollout
    \/ ShouldUse

SpecScoring == ScoringInit /\ [][ScoringNext]_vars

\* --------------------------------------------- the scorers' update functions

\* the fields of a PostCandidate that an update can read or write, and the post
\* id as a field no scorer writes; phoenix_scores is 0 for PhoenixScores::default()
\* and 1 for a score vector returned by the model, weighted_score is in
\* thousandths and diversity_boost in tenths
StageFields ==
    {"tweet_id", "phoenix_scores", "prediction_request_id", "last_scored_at_ms",
     "weighted_score", "diversity_boost"}

\* PostCandidate { ..Default::default() } as the scorers build their deltas
StageCandidate_default ==
    [tweet_id |-> 0, phoenix_scores |-> 0, prediction_request_id |-> None,
     last_scored_at_ms |-> None, weighted_score |-> None, diversity_boost |-> None]

\* the candidates of a request on their way through the scorers
StageCandidates ==
    {[tweet_id |-> 1, phoenix_scores |-> p, prediction_request_id |-> i,
      last_scored_at_ms |-> t, weighted_score |-> w, diversity_boost |-> None] :
        p \in {0, 1}, i \in {None, Some(7)}, t \in {None, Some(5)},
        w \in {None, Some(2000)}}

\* the deltas a scorer's score() hands to its update()
StageDeltas ==
    {[StageCandidate_default EXCEPT
        !.phoenix_scores = p, !.prediction_request_id = i, !.last_scored_at_ms = t,
        !.weighted_score = w, !.diversity_boost = b] :
        p \in {0, 1}, i \in {None, Some(9)}, t \in {None, Some(6)},
        w \in {None, Some(3000)}, b \in {None, Some(10), Some(15)}}

WeightedScorer_update(candidate, scored) ==
    [candidate EXCEPT !.weighted_score = scored.weighted_score]

PersonalizedWeightedScorer_update(candidate, scored) ==
    [candidate EXCEPT !.weighted_score = scored.weighted_score]

CachedPhoenixScorer_update(candidate, scored) ==
    [candidate EXCEPT !.phoenix_scores = scored.phoenix_scores,
                      !.prediction_request_id = scored.prediction_request_id,
                      !.last_scored_at_ms = scored.last_scored_at_ms]

BatchedPhoenixScorer_update(candidate, scored) ==
    [candidate EXCEPT !.phoenix_scores = scored.phoenix_scores,
                      !.prediction_request_id = scored.prediction_request_id,
                      !.last_scored_at_ms = scored.last_scored_at_ms]

\* current_score * boost, the boost in tenths
DiversityBoostScorer_update(candidate, scored) ==
    IF scored.diversity_boost.set /\ candidate.weighted_score.set
    THEN [candidate EXCEPT
            !.weighted_score =
                Some((candidate.weighted_score.value * scored.diversity_boost.value) \div 10)]
    ELSE candidate

StageScorers ==
    {"WeightedScorer", "PersonalizedWeightedScorer", "CachedPhoenixScorer",
     "BatchedPhoenixScorer", "DiversityBoostScorer"}

update(scorer, candidate, scored) ==
    CASE scorer = "WeightedScorer" -> WeightedScorer_update(candidate, scored)
      [] scorer = "PersonalizedWeightedScorer" ->
            PersonalizedWeightedScorer_update(candidate, scored)
      [] scorer = "CachedPhoenixScorer" -> CachedPhoenixScorer_update(candidate, scored)
      [] scorer = "BatchedPhoenixScorer" -> BatchedPhoenixScorer_update(candidate, scored)
      [] scorer = "DiversityBoostScorer" -> DiversityBoostScorer_update(candidate, scored)

\* one call of a scorer's update on a candidate with a delta
Update ==
    /\ fn_call = NoFn
    /\ \E scorer \in StageScorers, candidate \in StageCandidates, scored \in StageDeltas :
        /\ fn_call' = [fn |-> "update", scorer |-> scorer, candidate |-> candidate,
                       scored |-> scored]
        /\ fn_ret' = [fn |-> "update", candidate |-> update(scorer, candidate, scored)]
        /\ UNCHANGED <<batchVars, cacheVars, clusterVars, filterVars>>

\* ------------------------------------------- the weighted scorers' score()

\* the cluster profiles get_user_cluster hands to the personalized scorer, with
\* the fields compute_personalized_score reads: the preferences and the
\* multiplier in tenths, negative_feedback_rate in hundredths; the first is
\* ClusterProfile::default()
ScorerClusters ==
    {[video_preference |-> 5, image_preference |-> 5, engagement_multiplier |-> 10,
      negative_feedback_rate |-> 2],
     [video_preference |-> 9, image_preference |-> 7, engagement_multiplier |-> 13,
      negative_feedback_rate |-> 5],
     [video_preference |-> 1, image_preference |-> 0, engagement_multiplier |-> 8,
      negative_feedback_rate |-> 0]}

\* the weights of compute_personalized_score, in its order, in thousandths
PersonalizedWeights(candidate, cluster) ==
    LET favorite_weight == FAVORITE_WEIGHT * cluster.engagement_multiplier
        reply_weight == REPLY_WEIGHT * cluster.engagement_multiplier
        retweet_weight == RETWEET_WEIGHT * cluster.engagement_multiplier
        vqv_weight == personalized_vqv_weight(candidate, cluster)
        share_multiplier == IF cluster.engagement_multiplier > 12 THEN 15 ELSE 10
        negative_multiplier == 10 + cluster.negative_feedback_rate
    IN  <<favorite_weight, reply_weight, retweet_weight,
          PHOTO_EXPAND_WEIGHT * cluster.image_preference, CLICK_WEIGHT * 10,
          PROFILE_CLICK_WEIGHT * 10, vqv_weight, SHARE_WEIGHT * share_multiplier,
          SHARE_VIA_DM_WEIGHT * share_multiplier,
          SHARE_VIA_COPY_LINK_WEIGHT * share_multiplier, DWELL_WEIGHT * 10,
          QUOTE_WEIGHT * 10, QUOTED_CLICK_WEIGHT * 10, CONT_DWELL_TIME_WEIGHT * 10,
          FOLLOW_AUTHOR_WEIGHT * 10, NOT_INTERESTED_WEIGHT * negative_multiplier,
          BLOCK_AUTHOR_WEIGHT * negative_multiplier,
          MUTE_AUTHOR_WEIGHT * negative_multiplier, REPORT_WEIGHT * negative_multiplier>>

\* PersonalizedWeightedScorer::offset_score, on ten-thousandths
personalized_offset_score(combined_score) ==
    IF WEIGHTS_SUM = 0 THEN Max(combined_score, 0)
    ELSE IF combined_score < 0
         THEN ((((combined_score + NEGATIVE_WEIGHTS_SUM * 100) * 100) \div WEIGHTS_SUM)
               * (NEGATIVE_SCORES_OFFSET * 100)) \div 10000
         ELSE combined_score + NEGATIVE_SCORES_OFFSET * 100

\* PersonalizedWeightedScorer::compute_personalized_score, in ten-thousandths
compute_personalized_score(candidate, cluster) ==
    LET s == candidate.phoenix_scores
        scores == [i \in 1 .. Len(ScoreFields) |-> unwrap_or(s[ScoreFields[i]], 0)]
        weights == PersonalizedWeights(candidate, cluster)
    IN  personalized_offset_score(Combined(scores, weights, Len(scores)))

\* the candidate lists given to score(): up to two candidates
ScoredLists == UNION {[1 .. n -> Candidates] : n \in 0 .. 2}

\* a faulty score() (the deltas come out in reverse order), to test C36 against
WeightedScorer_score_reversed(candidates) ==
    [i \in 1 .. Len(candidates) |->
        LET c == candidates[Len(candidates) + 1 - i]
            weighted_score == compute_weighted_score(c)
            normalized_weighted_score == normalize_score(c, weighted_score)
        IN  [StageCandidate_default EXCEPT !.weighted_score = Some(normalized_weighted_score)]]

\* WeightedScorer::score: the deltas, one per candidate
WeightedScorer_score(candidates) ==
    [i \in 1 .. Len(candidates) |->
        LET c == candidates[i]
            weighted_score == compute_weighted_score(c)
            normalized_weighted_score == normalize_score(c, weighted_score)
        IN  [StageCandidate_default EXCEPT !.weighted_score = Some(normalized_weighted_score)]]

\* PersonalizedWeightedScorer::score with the profile get_user_cluster returned
PersonalizedWeightedScorer_score(cluster, candidates) ==
    [i \in 1 .. Len(candidates) |->
        LET c == candidates[i]
            weighted_score == compute_personalized_score(c, cluster)
            normalized_score == normalize_score(c, weighted_score)
        IN  [StageCandidate_default EXCEPT !.weighted_score = Some(normalized_score)]]

\* one call of WeightedScorer::score
WeightedScorerScore ==
    /\ fn_call = NoFn
    /\ \E candidates \in ScoredLists :
        /\ fn_call' = [fn |-> "WeightedScorer::score", candidates |-> candidates]
        /\ fn_ret' = [fn |-> "WeightedScorer::score",
                      scored |-> WeightedScorer_score(candidates)]
        /\ UNCHANGED <<batchVars, cacheVars, clusterVars, filterVars>>

\* one call of PersonalizedWeightedScorer::score
PersonalizedWeightedScorerScore ==
    /\ fn_call = NoFn
    /\ \E cluster \in ScorerClusters, candidates \in ScoredLists :
        /\ fn_call' = [fn |-> "PersonalizedWeightedScorer::score", cluster |-> cluster,
                       candidates |-> candidates]
        /\ fn_ret' = [fn |-> "PersonalizedWeightedScorer::score",
                      scored |-> PersonalizedWeightedScorer_score(cluster, candidates)]
        /\ UNCHANGED <<batchVars, cacheVars, clusterVars, filterVars>>

\* ------------------------------------------------------------ age filter
\* Time is in ticks of half an hour, for the wall clock and for the clock of
\* the cache alike.

\* the time_to_live of timestamp_cache (3600 s), in ticks
time_to_live == 2

\* snowflake::timestamp_millis: the id without its low 22 bits, from the epoch
timestamp_millis(snowflake_id) == (snowflake_id \div Pow(2, 22)) + TWITTER_EPOCH

\* snowflake::from_timestamp
from_timestamp(timestamp_ms) == (timestamp_ms - TWITTER_EPOCH) * Pow(2, 22)

\* snowflake::duration_since_creation_opt, now_ms being the clock
duration_since_creation_opt(snowflake_id, now_ms) ==
    LET creation_ms == timestamp_millis(snowflake_id) IN
    IF now_ms > creation_ms THEN Some(now_ms - creation_ms) ELSE None

\* the post ids given to the filter: a post created at the start of the
\* clock, one created a tick later (with sequence bits), and one created
\* after the end of the clock
FilterPosts ==
    {from_timestamp(TWITTER_EPOCH), from_timestamp(TWITTER_EPOCH + 1) + 5,
     from_timestamp(TWITTER_EPOCH + MaxFilterNow + 1)}

\* the candidate lists given to filter(): up to two candidates
FilterLists ==
    UNION {[1 .. n -> {[StageCandidate_default EXCEPT !.tweet_id = id] : id \in FilterPosts}] :
              n \in 0 .. 2}

\* Cache::get: the value of an entry younger than the time to live
cache_get(cache, now_ms, tweet_id) ==
    IF tweet_id \in DOMAIN cache /\ now_ms - cache[tweet_id].inserted < time_to_live
    THEN Some(cache[tweet_id].value) ELSE None

\* AgeFilter::is_within_age: the answer and the cache after the call
is_within_age(cache, now_ms, tweet_id) ==
    LET cached_result == cache_get(cache, now_ms, tweet_id)
        age == duration_since_creation_opt(tweet_id, now_ms)
        is_valid == IF age.set THEN age.value <= max_age ELSE FALSE
    IN  IF cached_result.set THEN [ret |-> cached_result.value, cache |-> cache]
        ELSE [ret |-> is_valid,
              cache |-> Insert(cache, tweet_id, [value |-> is_valid, inserted |-> now_ms])]

RECURSIVE filter(_, _, _, _)
\* AgeFilter::filter after its first n candidates: partition calls
\* is_within_age for the candidates in order
filter(cache, now_ms, candidates, n) ==
    IF n = 0 THEN [cache |-> cache, kept |-> <<>>, removed |-> <<>>]
    ELSE LET prev == filter(cache, now_ms, candidates, n - 1)
             r == is_within_age(prev.cache, now_ms, candidates[n].tweet_id)
         IN  [cache |-> r.cache,
              kept |-> IF r.ret THEN Append(prev.kept, candidates[n]) ELSE prev.kept,
              removed |-> IF r.ret THEN prev.removed ELSE Append(prev.removed, candidates[n])]

\* one call of AgeFilter::filter
Filter ==
    \E candidates \in FilterLists :
        LET r == filter(timestamp_cache, filter_now, candidates, Len(candidates)) IN
        /\ fn_call' = [fn |-> "AgeFilter::filter", candidates |-> candidates,
                       now |-> filter_now]
        /\ fn_ret' = [fn |-> "AgeFilter::filter", kept |-> r.kept, removed |-> r.removed]
        /\ timestamp_cache' = r.cache
        /\ UNCHANGED filter_now
        /\ UNCHANGED <<batchVars, cacheVars, clusterVars>>

\* half an hour passes
FilterTick ==
    /\ filter_now < TWITTER_EPOCH + MaxFilterNow
    /\ filter_now' = filter_now + 1
    /\ UNCHANGED <<fn_call, fn_ret, timestamp_cache>>
    /\ UNCHANGED <<batchVars, cacheVars, clusterVars>>

\* the age filter called again and again while time passes
FilterInit == BatchIdle /\ CacheIdle /\ ClusterIdle /\ FnIdle

FilterNext ==
    \/ Filter
    \/ FilterTick

SpecFilter == FilterInit /\ [][FilterNext]_vars

\* the caller takes the result of the call
FnReturn ==
    /\ fn_call # NoFn
    /\ fn_call' = NoFn
    /\ fn_ret' = NoFn
    /\ UNCHANGED <<batchVars, cacheVars, clusterVars, filterVars>>

\* the pipeline stages, called one at a time
StagesInit == BatchIdle /\ CacheIdle /\ ClusterIdle /\ FnIdle

StagesNext ==
    \/ Update
    \/ WeightedScorerScore
    \/ PersonalizedWeightedScorerScore
    \/ FnReturn

SpecStages == StagesInit /\ [][StagesNext]_vars

\* ------------------------------------------------------------- claims

\* the number of occurrences of r in the sequence p
Count(p, r) == Cardinality({i \in 1 .. Len(p) : p[i] = r})

RECURSIVE SumLen(_, _)
\* total number of candidates of the first n requests of the sequence of ids p
SumLen(p, n) == IF n = 0 THEN 0 ELSE SumLen(p, n - 1) + Len(requests[p[n]].candidates)

\* the requests created so far
Created == 1 .. Len(requests)

\* r has been completed with a success / with an error
GotOk(r) == delivered[r] # <<>> /\ delivered[r][1].ok
GotErr(r) == delivered[r] # <<>> /\ ~delivered[r][1].ok

\* C1: every request created is at exactly one place: in the channel, in the
\* accumulation buffer (so in exactly one batch, the one being accumulated or
\* flushed), or completed with exactly one result; its handle is never sent
\* two results, and a request that has left the buffer has been sent one.
C1_ExactlyOnce ==
    \A r \in 1 .. NumReq :
        /\ Len(delivered[r]) <= 1
        /\ IF r \in Created
           THEN Count(queue, r) + Count(pending, r) + Len(delivered[r]) = 1
           ELSE Count(queue, r) + Count(pending, r) + Len(delivered[r]) = 0

\* C1 witness: after a second flush, one request holds a success and another an error.
C1_Witness ==
    /\ total_batches >= 2
    /\ \E r1, r2 \in Created : GotOk(r1) /\ GotErr(r2)

\* C2: during a flush the i-th boundary is the number of candidates of the
\* requests before the i-th one, and a request completed with a success holds
\* one result per candidate it submitted, for the same posts in the same order.
C2_OwnSlice ==
    /\ pc = "scoring" =>
          /\ Len(inflight.request_boundaries) = Len(pending) + 1
          /\ \A i \in 1 .. Len(pending) + 1 :
                inflight.request_boundaries[i] = SumLen(pending, i - 1)
    /\ \A r \in Created :
          GotOk(r) =>
             LET res == delivered[r][1].val
                 own == requests[r].candidates IN
             /\ Len(res) = Len(own)
             /\ \A i \in 1 .. Len(own) : res[i].tweet_id = own[i]

\* C2 witness: a batch of three requests with different candidate lists has
\* been split, the second request's list being longer than the first's.
C2_Witness ==
    /\ pc = "stats"
    /\ inflight.batch_size >= 3
    /\ \A r \in 1 .. 3 : r \in Created /\ GotOk(r)
    /\ Len(requests[1].candidates) < Len(requests[2].candidates)
    /\ Len(requests[3].candidates) < Len(requests[2].candidates)

\* C3: in the step in which a member of the flushed batch is sent an error,
\* every member of that batch is sent that same error and nothing else, the
\* requests outside the batch keep what they had, the channel is untouched,
\* and the consumer goes on with an empty buffer.
C3_FailsAtomically ==
    [][ (pc = "scoring" /\ pc' # "scoring"
            /\ \E r \in Range(pending) : delivered'[r] # delivered[r] /\ GotErr(r)')
        => /\ \E e \in Errors : \A r \in Range(pending) : delivered'[r] = <<Err(e)>>
           /\ \A r \in (1 .. NumReq) \ Range(pending) : delivered'[r] = delivered[r]
           /\ queue' = queue
           /\ pending' = <<>>
           /\ pc' = "stats" ]_vars

\* C3 witness: a batch of two requests has just failed while a third request
\* waits in the channel.
C3_Witness ==
    /\ pc = "stats"
    /\ inflight.batch_size = 2
    /\ queue # <<>>
    /\ Cardinality({r \in Created : GotErr(r)}) = 2

\* C4 (the claim as stated): no request stays in the accumulation buffer
\* longer than max_wait_time.
C4_MaxWait == window_age <= max_wait_time

\* C5: with max_batch_size >= 1 the buffer never holds more than
\* max_batch_size requests, it holds fewer whenever the consumer waits in
\* select!, and no call to the wrapped scorer combines more than
\* max_batch_size requests.
C5_SizeBound ==
    max_batch_size >= 1 =>
        /\ Len(pending) <= max_batch_size
        /\ (pc = "select" => Len(pending) < max_batch_size)
        /\ inflight.batch_size <= max_batch_size
        /\ (pc = "scoring" => Len(inflight.request_boundaries) - 1 <= max_batch_size)

\* C5 witness: a flush triggered by size, before max_wait_time has elapsed.
C5_Witness ==
    /\ pc = "scoring"
    /\ max_batch_size >= 2
    /\ Len(pending) = max_batch_size
    /\ elapsed < max_wait_time

\* C6 (the claim as stated): the combined candidate list of a flush never
\* holds more than max_batch_size candidates.
C6_CandidateBound ==
    (max_batch_size >= 1 /\ pc = "scoring") =>
        Len(inflight.all_candidates) <= max_batch_size

\* C7 (the claim as stated): when all the score() calls of a run were made
\* within one max-wait window, they are fewer than max_batch_size and all
\* have been completed, the wrapped scorer has been called exactly once.
C7_OneCall ==
    (/\ requests # <<>>
     /\ Len(requests) < max_batch_size
     /\ burst <= max_wait_time
     /\ pc = "select"
     /\ \A r \in Created : delivered[r] # <<>>)
    => total_batches = 1

\* C8: every score() call made is eventually completed.
C8_EventuallyReturns ==
    \A r \in 1 .. NumReq : (r \in Created) ~> (delivered[r] # <<>>)

\* C8 witness: the only request of the run, received below the size
\* threshold, has been completed.
C8_Witness ==
    /\ Len(requests) = 1
    /\ max_batch_size > 1
    /\ delivered[1] # <<>>
    /\ queue = <<>>

StartsCall(t, v, c) ==
    /\ calls[t].pc = "idle"
    /\ ncalls' = ncalls + 1
    /\ calls'[t].call_no = ncalls'
    /\ calls'[t].user_id = v
    /\ calls'[t].candidates = c

\* the call completed last was a successful call for v and c, nothing has
\* touched the cache since, it returned at most the TTL ago and the cache has
\* room for the list
RepeatsLast(v, c) ==
    /\ last_done.set
    /\ last_done.ok
    /\ last_done.user_id = v
    /\ last_done.candidates = c
    /\ now - last_done.at <= user_cache_ttl_secs
    /\ user_cache_size >= Len(c)

\* the step makes no call to the wrapped scorer, counts one hit per candidate
\* of c and no miss, and the call returns in it with a success
AllHits(t, c) ==
    /\ inner_calls' = inner_calls
    /\ cache_hits' = cache_hits + Len(c)
    /\ cache_misses' = cache_misses
    /\ calls'[t].pc = "idle"
    /\ calls'[t].result # <<>> /\ calls'[t].result[1].ok

\* no entry of the cache under a key of v and c is older than the TTL
NoneOutlived(v, c) ==
    \A i \in 1 .. Len(c), j \in 1 .. Len(user_cache) :
        user_cache[j].key = <<v, c[i]>> => now - user_cache[j].timestamp <= user_cache_ttl_secs

\* C10 (the claim as stated): a call that repeats the last successful call
\* within the TTL of that call is served from the cache alone.
C10_RepeatWithinTtlOfCall ==
    [][ \A t \in CacheTasks, v \in Viewers, c \in CacheCandLists :
            (StartsCall(t, v, c) /\ RepeatsLast(v, c)) => AllHits(t, c) ]_vars

\* C10 (amended): a call that repeats the last successful call while no entry
\* under its keys has outlived the TTL is served from the cache alone, so the
\* two calls together invoke the wrapped scorer at most once.
C10_RepeatWhileFresh ==
    [][ \A t \in CacheTasks, v \in Viewers, c \in CacheCandLists :
            (StartsCall(t, v, c) /\ RepeatsLast(v, c) /\ NoneOutlived(v, c))
            => /\ AllHits(t, c)
               /\ (IF last_done.misses > 0 THEN 1 ELSE 0) + (inner_calls' - inner_calls) <= 1 ]_vars

\* C10 witness: the second of two successful calls for the same viewer and a
\* list of two posts has returned; the first missed on both posts and called
\* the wrapped scorer, the second hit on both.
C10_Witness ==
    /\ ncalls = 2
    /\ inner_calls = 1
    /\ cache_misses = 2
    /\ cache_hits = 2
    /\ last_done.set /\ last_done.ok /\ last_done.misses = 0
    /\ last_done.candidates = <<2, 1>>
    /\ user_cache_size = 2

\* the cache c holds an entry under key k
HasKey(c, k) == \E j \in 1 .. Len(c) : c[j].key = k

\* the cache holds an entry for viewer v and post p that is within its TTL
Fresh(v, p) ==
    \E j \in 1 .. Len(user_cache) :
        /\ user_cache[j].key = <<v, p>>
        /\ now - user_cache[j].timestamp <= user_cache_ttl_secs

\* the cache holds an entry for viewer v and post p that has outlived its TTL
Stale(v, p) ==
    \E j \in 1 .. Len(user_cache) :
        /\ user_cache[j].key = <<v, p>>
        /\ now - user_cache[j].timestamp > user_cache_ttl_secs

\* the indices that the call of task t, started in this step, served from the cache
HitIdx(t) == {calls'[t].cached_results[j].idx : j \in 1 .. Len(calls'[t].cached_results)}

\* in this step the wrapped scorer returns Ok to the call of task t
InnerReturnsOk(t) ==
    /\ calls[t].pc = "inner"
    /\ calls'[t].pc = "idle"
    /\ calls'[t].result[1].ok

ReturnedOk(t) ==
    /\ calls[t].pc = "idle"
    /\ calls[t].result # <<>>
    /\ calls[t].result[1].ok

\* C12: a successful score() of the caching decorator returns one result per
\* candidate, and the result at index i carries the post id of candidates[i].
C12_OneResultPerCandidate ==
    \A t \in CacheTasks :
        ReturnedOk(t) =>
            LET results == calls[t].result[1].val IN
            /\ Len(results) = Len(calls[t].candidates)
            /\ \A i \in 1 .. Len(results) : results[i].tweet_id = calls[t].candidates[i]

\* a call for <<2, 1>> has returned with the first candidate scored by the
\* wrapped scorer and the second served from the cache
C12_Witness ==
    \E t \in CacheTasks :
        /\ ReturnedOk(t)
        /\ calls[t].candidates = <<2, 1>>
        /\ calls[t].uncached_indices = <<1>>
        /\ Len(calls[t].cached_results) = 1
        /\ calls[t].cached_results[1].idx = 2

\* the candidates of c that viewer v has no valid entry for, in the order of c
Missed(v, c) == SelectSeq(c, LAMBDA p : ~Fresh(v, p))

\* C13: a score() call of the caching decorator calls the wrapped scorer at
\* most once, when it starts: with the candidates that have no valid entry, in
\* input order, and not at all when there is none; no other step calls it.
C13_OneInnerCall ==
    [][ /\ \A t \in CacheTasks, v \in Viewers, c \in CandLists :
              StartsCall(t, v, c) =>
                  /\ calls'[t].uncached_candidates = Missed(v, c)
                  /\ Missed(v, c) = <<>> => (inner_calls' = inner_calls /\ calls'[t].pc = "idle")
                  /\ Missed(v, c) # <<>> => (inner_calls' = inner_calls + 1 /\ calls'[t].pc = "inner")
        /\ ncalls' = ncalls => inner_calls' = inner_calls
        /\ \A t \in CacheTasks :
              (calls[t].pc = "inner" /\ calls'[t].pc = "inner") =>
                  calls'[t].uncached_candidates = calls[t].uncached_candidates ]_vars

\* a call for <<2, 1>> found a valid entry for post 1 only: the wrapped scorer
\* is running on <<2>> for it
C13_Witness ==
    \E t \in CacheTasks :
        /\ calls[t].pc = "inner"
        /\ calls[t].candidates = <<2, 1>>
        /\ calls[t].uncached_candidates = <<2>>
        /\ Len(calls[t].cached_results) = 1

\* in this step the wrapped scorer returns Err to the call of task t
InnerReturnsErr(t) ==
    /\ calls[t].pc = "inner"
    /\ calls'[t].pc = "idle"
    /\ ~calls'[t].result[1].ok

\* C14: when the wrapped scorer fails, the call returns that one error, also
\* when it had hits, and the step leaves the cache and the counters as they
\* were; the lookup pass of a call keeps every entry that is within its TTL,
\* unchanged; and the call that follows a failed call is served every
\* candidate that has such an entry from the cache.
C14_FailureKeepsEntries ==
    [][ /\ \A t \in CacheTasks :
              InnerReturnsErr(t) =>
                  /\ \E e \in Errors : calls'[t].result = <<Err(e)>>
                  /\ user_cache' = user_cache
                  /\ cache_hits' = cache_hits /\ cache_misses' = cache_misses
                  /\ inner_calls' = inner_calls
        /\ \A t \in CacheTasks, v \in Viewers, c \in CacheCandLists :
              StartsCall(t, v, c) =>
                  /\ \A j \in 1 .. Len(user_cache) :
                         now - user_cache[j].timestamp <= user_cache_ttl_secs =>
                             user_cache[j] \in Range(user_cache')
                  /\ (last_done.set /\ ~last_done.ok) =>
                         \A i \in 1 .. Len(c) : Fresh(v, c[i]) => i \in HitIdx(t) ]_vars

\* post 1 was cached; a call for <<2, 1>> hit it and failed on post 2; a third
\* call was served post 1 from the cache, which holds nothing else
C14_Witness ==
    /\ user_cache_size = 2
    /\ ncalls = 3
    /\ inner_calls = 2
    /\ cache_misses = 2
    /\ cache_hits = 2
    /\ Len(user_cache) = 1
    /\ last_done.set /\ last_done.ok /\ last_done.misses = 0
    /\ last_done.candidates = <<1>>

\* C15: a hit returns the score vector of the one entry stored under the key
\* (viewer of the call, post of the candidate); the cache never holds two
\* entries under one key, and the score vector of an entry is the one the
\* wrapped scorer computes for the viewer and the post of its key.
C15_HitsAreOwn ==
    [][ /\ \A t \in CacheTasks, v \in Viewers, c \in CandLists :
              StartsCall(t, v, c) =>
                  \A j \in 1 .. Len(calls'[t].cached_results) :
                      LET r == calls'[t].cached_results[j] IN
                      /\ r.candidate.tweet_id = c[r.idx]
                      /\ \E e \in Range(user_cache) :
                             /\ e.key = <<v, c[r.idx]>>
                             /\ e.value = r.candidate.phoenix_scores
        /\ \A j, k \in 1 .. Len(user_cache') :
              user_cache'[j].key = user_cache'[k].key => j = k
        /\ \A j \in 1 .. Len(user_cache') :
              user_cache'[j].value =
                  ScoreOne(user_cache'[j].key[1], user_cache'[j].key[2]).phoenix_scores ]_vars

\* both viewers have an entry for post 1, and viewer 2 has been served its
\* own from the cache after a call of viewer 1
C15_Witness ==
    /\ HasKey(user_cache, <<1, 1>>)
    /\ HasKey(user_cache, <<2, 1>>)
    /\ \E t, u \in CacheTasks :
          /\ t # u
          /\ ReturnedOk(t)
          /\ calls[t].user_id = 2
          /\ calls[t].uncached_candidates = <<>>
          /\ calls[t].cached_results[1].candidate.phoenix_scores = ScoreOne(2, 1).phoenix_scores
          /\ ReturnedOk(u)
          /\ calls[u].user_id = 1

\* the keys under which the call of task t, started in this step, found a valid entry
HitKeys(t) ==
    {<<calls'[t].user_id, calls'[t].cached_results[j].candidate.tweet_id>> :
        j \in 1 .. Len(calls'[t].cached_results)}

\* the keys under which the call of task t writes when the wrapped scorer returns Ok
WrittenKeys(t) ==
    {<<calls[t].user_id, calls[t].uncached_candidates[j]>> :
        j \in 1 .. Len(calls[t].uncached_candidates)}

\* the entries of the cache c under keys outside K, in the order of c
Others(c, K) == SelectSeq(c, LAMBDA e : e.key \notin K)

\* in the cache c every entry under a key of K is more recently used than
\* every entry under another key
InFront(c, K) ==
    \A i, j \in 1 .. Len(c) : (c[i].key \in K /\ c[j].key \notin K) => i < j

\* C16: the cache never holds more than user_cache_size entries.  A lookup
\* pass makes the entries it finds valid the most recently used and keeps the
\* order of the others; a write-back makes the written entries the most
\* recently used, and the entries it drops are the least recently used ones,
\* dropped only when the cache is full.
C16_LruBound ==
    [][ /\ Len(user_cache') <= user_cache_size
        /\ \A t \in CacheTasks, v \in Viewers, c \in CacheCandLists :
              StartsCall(t, v, c) =>
                  /\ InFront(user_cache', HitKeys(t))
                  /\ Others(user_cache', HitKeys(t)) =
                         SelectSeq(Others(user_cache, HitKeys(t)),
                                   LAMBDA e : now - e.timestamp <= user_cache_ttl_secs
                                              \/ e.key[1] # v \/ e.key[2] \notin Range(c))
        /\ \A t \in CacheTasks :
              InnerReturnsOk(t) =>
                  LET old == Others(user_cache, WrittenKeys(t))
                      kept == Others(user_cache', WrittenKeys(t)) IN
                  /\ InFront(user_cache', WrittenKeys(t))
                  /\ Len(kept) <= Len(old)
                  /\ kept = SubSeq(old, 1, Len(kept))
                  /\ Len(kept) < Len(old) => Len(user_cache') = user_cache_size ]_vars

\* a cache of two entries was filled by viewer 1 with posts 2 and 1, the
\* insertion of viewer 2's post 1 dropped the entry of post 2, and a lookup
\* made viewer 1's post 1 the most recently used entry again
C16_Witness ==
    /\ user_cache_size = 2
    /\ ncalls = 3
    /\ cache_misses = 3
    /\ cache_hits = 1
    /\ Len(user_cache) = 2
    /\ user_cache[1].key = <<1, 1>>
    /\ user_cache[2].key = <<2, 1>>
    /\ last_done.set /\ last_done.ok /\ last_done.misses = 0

\* C17: a score() call adds one to cache_hits or to cache_misses for each of
\* its candidates, each candidate being either among the cached results or
\* among the misses; no other step changes the counters, whether calls
\* overlap or fail; and cache_hit_rate is hits / (hits + misses), or 0 when
\* both are 0.
C17_CountersAddUp ==
    [][ /\ \A t \in CacheTasks, v \in Viewers, c \in CandLists :
              StartsCall(t, v, c) =>
                  /\ (cache_hits' - cache_hits) + (cache_misses' - cache_misses) = Len(c)
                  /\ cache_hits' - cache_hits = Len(calls'[t].cached_results)
                  /\ cache_misses' - cache_misses = Len(calls'[t].uncached_indices)
                  /\ HitIdx(t) \cup Range(calls'[t].uncached_indices) = 1 .. Len(c)
                  /\ HitIdx(t) \cap Range(calls'[t].uncached_indices) = {}
                  /\ Cardinality(HitIdx(t)) = Len(calls'[t].cached_results)
                  /\ Cardinality(Range(calls'[t].uncached_indices)) =
                         Len(calls'[t].uncached_indices)
        /\ ncalls' = ncalls => (cache_hits' = cache_hits /\ cache_misses' = cache_misses)
        /\ cache_hits' + cache_misses' = 0 => cache_hit_rate'.num = 0
        /\ cache_hits' + cache_misses' > 0 =>
              cache_hit_rate'.num * (cache_hits' + cache_misses') =
                  cache_hits' * cache_hit_rate'.den ]_vars

\* three calls with five candidates in all: the last two overlapped, the
\* earlier of them has failed, and two hits and three misses are counted
C17_Witness ==
    /\ ncalls = 3
    /\ cache_hits = 2
    /\ cache_misses = 3
    /\ \E t, u \in CacheTasks :
          /\ calls[t].pc = "idle" /\ calls[t].result # <<>> /\ ~calls[t].result[1].ok
          /\ calls[t].call_no = 0
          /\ Len(calls[t].candidates) = 2
          /\ calls[u].pc = "inner"
          /\ calls[u].call_no = 3
          /\ Len(calls[u].candidates) = 2

\* C18 (the claim as stated): a decorator with a bound of zero is never
\* constructed, so it never serves a request: no request is answered by a
\* batching decorator with max_batch_size = 0, and the cache never has
\* capacity 0.
C18_ZeroBoundNeverServes ==
    /\ user_cache_size >= 1
    /\ max_batch_size = 0 => \A r \in 1 .. NumReq : delivered[r] = <<>>

\* C19: get_user_cluster can be called in every state, and for a viewer
\* without an entry in the map it returns the default profile: cluster 0,
\* engagement multiplier 1.0 and preferences 0.5.
C19_UnknownGetsDefault ==
    /\ \A u \in ClusterUsers : ENABLED GetUserCluster(u)
    /\ (got.set /\ ~got.known) =>
          /\ got.profile.cluster_id = 0
          /\ got.profile.engagement_multiplier = 10
          /\ got.profile.video_preference = 5
          /\ got.profile.image_preference = 5
          /\ got.profile.text_preference = 5
          /\ got.profile.diversity_preference = 5

\* other viewers have profiles, a refresh has computed a new profile for
\* viewer 1 and has not yet replaced the map, and a get for viewer 1, which
\* has no entry, returned the default
C19_Witness ==
    /\ got.set
    /\ ~got.known
    /\ got.user_id = 1
    /\ got.profile = ClusterProfile_default
    /\ 1 \notin DOMAIN clusters
    /\ clusters # <<>>
    /\ refresh.pc = "loop"
    /\ 1 \in DOMAIN refresh.new_clusters

\* the viewers of the feature batch b
BatchUsers(b) == {b[i].user_id : i \in 1 .. Len(b)}

\* the index of the last features of viewer u in the batch b
LastOf(b, u) ==
    CHOOSE i \in 1 .. Len(b) : b[i].user_id = u /\ \A j \in (i + 1) .. Len(b) : b[j].user_id # u

\* the map derived from the whole feature batch b
Derived(b) ==
    [u \in BatchUsers(b) |->
        features_to_profile(b[LastOf(b, u)], b[LastOf(b, u)].user_id % num_clusters)]

\* the viewers whose entry differs between the maps m and n
Changed(m, n) ==
    {u \in (DOMAIN m) \cup (DOMAIN n) :
        ~(u \in DOMAIN m /\ u \in DOMAIN n /\ m[u] = n[u])}

\* this step is the last step of a refresh
RefreshEnds ==
    /\ refresh.pc = "loop"
    /\ refresh.idx = Len(refresh.user_features)
    /\ refresh'.pc = "idle"

\* C20: the step that ends a refresh sets the map to the map derived from the
\* whole batch, so a viewer outside the batch has no entry afterwards; every
\* other step leaves the map alone or sets the entry of one viewer (an
\* assign), so that no state shows part of a refresh.
C20_RefreshReplacesAll ==
    [][ /\ RefreshEnds =>
              /\ clusters' = Derived(refresh.user_features)
              /\ \A u \in ClusterUsers \ BatchUsers(refresh.user_features) :
                     u \notin DOMAIN clusters'
        /\ ~RefreshEnds =>
              \/ clusters' = clusters
              \/ \E u \in ClusterUsers :
                     /\ Changed(clusters, clusters') = {u}
                     /\ u \in DOMAIN clusters'
                     /\ clusters'[u] \in AssignProfiles ]_vars

\* a get found the profile assigned to viewer 3; a refresh with a batch for
\* viewer 1 alone has since replaced the map, and viewer 3 has no entry
C20_Witness ==
    /\ got.set /\ got.known /\ got.user_id = 3
    /\ refresh.pc = "idle"
    /\ num_clusters > 0
    /\ DOMAIN clusters = {1}
    /\ clusters[1] = features_to_profile(Features(1, 8, 12), 1 % num_clusters)

\* C21: a viewer's get returns the profile assigned to it last, as long as no
\* refresh has replaced the map since; a get returns what the map holds; and
\* the step of an assign for one viewer changes the entry of no other viewer.
C21_AssignHolds ==
    [][ /\ \A u \in DOMAIN assigned' :
              /\ u \in DOMAIN clusters'
              /\ clusters'[u] = assigned'[u]
        /\ got' # got =>
              got'.profile = IF got'.user_id \in DOMAIN clusters
                             THEN clusters[got'.user_id] ELSE default_cluster
        /\ \A u \in ClusterUsers :
              (u \in DOMAIN assigned' /\ Changed(assigned, assigned') = {u}) =>
                  /\ Changed(clusters, clusters') \subseteq {u}
                  /\ got' = got ]_vars

\* a refresh gave viewers 1 and 2 their profiles; viewer 1 was then assigned
\* another profile, which a get for viewer 1 returned, and viewer 2 still has
\* the profile of the refresh
C21_Witness ==
    /\ num_clusters > 0
    /\ DOMAIN assigned = {1}
    /\ got.set /\ got.known /\ got.user_id = 1
    /\ got.profile = assigned[1]
    /\ DOMAIN clusters = {1, 2}
    /\ clusters[2] = features_to_profile(Features(2, 2, 9), 2 % num_clusters)

\* C22: select_top_k(items, k, score) returns min(k, n) of the n items, each
\* at most once; no returned item has a lower score than an item that is not
\* returned; with k >= n it returns all items, in their order.
C22_TopK ==
    fn_ret.fn = "select_top_k" =>
        LET items == fn_call.items
            n == Len(items)
            r == fn_ret.picked
        IN  /\ Len(r) = Min(fn_call.k, n)
            /\ Range(r) \subseteq 1 .. n
            /\ Cardinality(Range(r)) = Len(r)
            /\ \A i \in Range(r), j \in (1 .. n) \ Range(r) : items[i] >= items[j]
            /\ fn_call.k >= n => r = [i \in 1 .. n |-> i]

\* two of three items are asked for: the two returned are the ones with the
\* higher scores, and the one with the lowest score, the first of the list, is
\* left out
C22_Witness ==
    /\ fn_ret.fn = "select_top_k"
    /\ fn_call.items = <<0, 2, 1>>
    /\ fn_call.k = 2
    /\ Range(fn_ret.picked) = {2, 3}

\* the probability a candidate has in one field, in tenths: 0 when absent
Prob(c, f) == IF c.phoenix_scores[f].set THEN c.phoenix_scores[f].value ELSE 0

\* the candidate has a video longer than the threshold
LongVideo(c) ==
    c.video_duration_ms.set /\ c.video_duration_ms.value > MIN_VIDEO_DURATION_MS

\* the weight of each probability, in hundredths; the weight of the video view
\* is given as w
WeightOf(w) ==
    [favorite_score |-> 100, reply_score |-> 2700, retweet_score |-> 100,
     photo_expand_score |-> 50, click_score |-> 50, profile_click_score |-> 1200,
     vqv_score |-> w, share_score |-> 100, share_via_dm_score |-> 200,
     share_via_copy_link_score |-> 150, dwell_score |-> 10, quote_score |-> 200,
     quoted_click_score |-> 50, dwell_time |-> 5, follow_author_score |-> 400,
     not_interested_score |-> -7400, block_author_score |-> -15000,
     mute_author_score |-> -5000, report_score |-> -36900]

\* the sum of Prob(c, f) * w[f] over the fields f of F
RECURSIVE SumOver(_, _, _)
SumOver(F, c, w) ==
    IF F = {} THEN 0
    ELSE LET f == CHOOSE g \in F : TRUE
         IN  Prob(c, f) * w[f] + SumOver(F \ {f}, c, w)

\* the raw inner product of probabilities and weights, in thousandths
RawScore(c) ==
    SumOver(DOMAIN c.phoenix_scores, c, WeightOf(IF LongVideo(c) THEN 30 ELSE 0))

\* C23: when the raw inner product of a candidate is not negative, its
\* weighted score is that inner product plus the offset; with every
\* probability absent or 0 it is the offset, and with favorite 0.8, reply 0.6
\* and no video it is 17.0.
C23_NonNegativeRaw ==
    fn_ret.fn = "weighted_score" =>
        LET c == fn_call.candidate
        IN  /\ RawScore(c) >= 0 =>
                  fn_ret.weighted_score = RawScore(c) + NEGATIVE_SCORES_OFFSET * 10
            /\ (\A f \in DOMAIN c.phoenix_scores : Prob(c, f) = 0) =>
                  fn_ret.weighted_score = NEGATIVE_SCORES_OFFSET * 10
            /\ c = [PostCandidate_default EXCEPT
                       !.phoenix_scores.favorite_score = Some(8),
                       !.phoenix_scores.reply_score = Some(6)] =>
                  fn_ret.weighted_score = 17000

\* the candidate of the example (favorite 0.8, reply 0.6, no video) was scored
\* 17.0
C23_Witness ==
    /\ fn_ret.fn = "weighted_score"
    /\ Prob(fn_call.candidate, "favorite_score") = 8
    /\ Prob(fn_call.candidate, "reply_score") = 6
    /\ ~fn_call.candidate.video_duration_ms.set
    /\ RawScore(fn_call.candidate) = 17000
    /\ fn_ret.weighted_score = 17000

\* C24 (the claim as stated): with a negative raw inner product the weighted
\* score is (raw + sum of |negative weights|) / (sum of positive weights) plus
\* the offset, to the last digit kept.
C24_NegativeRawRescaled ==
    (fn_ret.fn = "weighted_score" /\ WEIGHTS_SUM # 0
     /\ RawScore(fn_call.candidate) < 0) =>
        LET raw == RawScore(fn_call.candidate)
            rescaled == fn_ret.weighted_score - NEGATIVE_SCORES_OFFSET * 10
        IN  abs(rescaled * WEIGHTS_SUM - (raw + NEGATIVE_WEIGHTS_SUM * 10) * 100)
                < WEIGHTS_SUM

\* C25: a candidate without a video, or with one not longer than
\* MIN_VIDEO_DURATION_MS, gets the video weight 0 and the same score as without
\* its video-view probability; a candidate with a longer video gets VQV_WEIGHT,
\* or VQV_WEIGHT * video_preference * 2 from the personalized scorer, and its
\* video-view probability counts with that weight.
C25_VideoGate ==
    /\ fn_ret.fn = "vqv_weight_eligibility" =>
          fn_ret.weight = IF LongVideo(fn_call.candidate) THEN 30 ELSE 0
    /\ fn_ret.fn = "personalized_vqv_weight" =>
          fn_ret.weight = IF LongVideo(fn_call.candidate)
                          THEN 30 * fn_call.cluster.video_preference * 2 ELSE 0
    /\ fn_ret.fn = "weighted_score" =>
          LET c == fn_call.candidate
              without == [c EXCEPT !.phoenix_scores.vqv_score = None]
              base == normalize_score(without, compute_weighted_score(without))
          IN  /\ ~LongVideo(c) => fn_ret.weighted_score = base
              /\ (LongVideo(c) /\ RawScore(without) >= 0) =>
                    fn_ret.weighted_score = base + Prob(c, "vqv_score") * 30

\* a candidate whose video is exactly as long as the threshold, with the
\* video-view probability 1.0 and a like probability 0.8, was scored 0.8: the
\* video view added nothing
C25_Witness ==
    /\ fn_ret.fn = "weighted_score"
    /\ fn_call.candidate.video_duration_ms = Some(MIN_VIDEO_DURATION_MS)
    /\ Prob(fn_call.candidate, "vqv_score") = 10
    /\ Prob(fn_call.candidate, "favorite_score") = 8
    /\ Prob(fn_call.candidate, "reply_score") = 0
    /\ Prob(fn_call.candidate, "not_interested_score") = 0
    /\ fn_ret.weighted_score = 800

\* C26: score_with_freshness(base, age) is base * 0.5^(age / half-life): the
\* base at age 0, half of it at one half-life of 6 hours, a quarter at two.
C26_FreshnessDecay ==
    fn_ret.fn = "score_with_freshness" =>
        LET base == fn_call.base_score
            age == fn_call.age_hours
            v == fn_ret.value
        IN  /\ v.kind = "finite"
            /\ v.num * Pow(2, age \div 6) = base * v.den
            /\ age = 0 => v.num = base * v.den
            /\ age = 6 => 2 * v.num = base * v.den
            /\ age = 12 => 4 * v.num = base * v.den

\* a base score of 100 at the age of 12 hours, two half-lives, came out as 25
C26_Witness ==
    /\ fn_ret.fn = "score_with_freshness"
    /\ fn_call.base_score = 100
    /\ fn_call.age_hours = 12
    /\ fn_ret.value.num = 25 * fn_ret.value.den

\* C27 (the claim as stated): for every author-post count n >= 1 of the
\* parameter's type, apply_diversity_penalty(score, n) returns
\* score * 0.8^(n-1): the score for 1, 0.8 of it for 2, 0.64 of it for 3, and
\* so on, which for the counts from i32::MAX - 1 on is 0 in f64.
C27_DiversityPenalty ==
    (fn_ret.fn = "apply_diversity_penalty"
     /\ (fn_call.author_post_count.hi = 1 \/ fn_call.author_post_count.lo >= 1)) =>
        LET n == fn_call.author_post_count
            r == fn_ret.ret
        IN  /\ ~r.panic
            /\ IF n.hi = 0 /\ n.lo <= MaxRank + 1
               THEN /\ r.value.kind = "finite"
                    /\ r.value.num * Pow(10, n.lo - 1)
                          = fn_call.score * Pow(8, n.lo - 1) * r.value.den
               ELSE r.value.kind = "zero"

\* C29: is_in_rollout(viewer, p) is true exactly when p >= 100, or p > 0 and
\* viewer mod 100 < p; a viewer in the rollout at p is in it at every higher
\* percentage; and a feature is used for a viewer exactly when it is enabled
\* and the viewer is in its rollout.
C29_RolloutGate ==
    /\ fn_ret.fn = "is_in_rollout" =>
          LET v == fn_call.user_id
              p == fn_call.percent
          IN  /\ fn_ret.ret <=> (p >= 100 \/ (p > 0 /\ v % 100 < p))
              /\ fn_ret.ret => \A q \in Percents : q >= p => is_in_rollout(v, q)
    /\ fn_ret.fn = "should_use" =>
          LET v == fn_call.user_id
              p == fn_call.percent
          IN  fn_ret.ret <=>
                 (fn_call.enabled /\ (p >= 100 \/ (p > 0 /\ v % 100 < p)))

\* at 50 percent the viewer 150, whose remainder is 50, was found outside the
\* rollout
C29_Witness ==
    /\ fn_ret.fn = "is_in_rollout"
    /\ fn_call.user_id = 150
    /\ fn_call.percent = 50
    /\ ~fn_ret.ret

\* C30: no cache lock is held while the wrapped scorer runs: while one call
\* of score() waits for the wrapped scorer, the lookup pass of a call of
\* another task can run, for every viewer.
C30_NoLockAcrossInner ==
    \A t, u \in CacheTasks :
        (t # u /\ calls[u].pc = "inner" /\ calls[t].pc = "idle" /\ ncalls < MaxCalls) =>
            \A v \in Viewers : ENABLED (\E c \in CandLists : CacheScore(t, v, c))

\* one call is still waiting for the wrapped scorer, and a call of the other
\* task that started after it has looked up its candidate, hit, and returned
C30_Witness ==
    \E t, u \in CacheTasks :
        /\ calls[u].pc = "inner"
        /\ calls[u].call_no = 0
        /\ ReturnedOk(t)
        /\ calls[t].call_no = ncalls
        /\ Len(calls[t].cached_results) = 1
        /\ calls[t].uncached_indices = <<>>

\* what the wrapped scorer's call in flight can have returned
Outcomes ==
    {Ok(InnerScore(inflight.query, inflight.all_candidates))} \cup {Err(e) : e \in Errors}

\* C28: when the caller of a request disappears, the request stays where it
\* is, in the channel, in the buffer or in the batch in flight; a flush sends
\* the candidates of every buffered request, dropped or not, to the wrapped
\* scorer; at the end of the flush every request whose caller is still there
\* receives the result for its own candidates (or the error), a request whose
\* caller is gone receives nothing, the buffer is empty and the consumer goes
\* on to its statistics and from there to the next select.
C28_CallerGone ==
    [][ /\ dropped' # dropped =>
              UNCHANGED <<requests, queue, pending, inflight, pc, delivered>>
        /\ (pc = "select" /\ pc' = "scoring") =>
              /\ pending' = IF queue' # queue THEN Append(pending, Head(queue)) ELSE pending
              /\ inflight'.batch_size = Len(pending')
              /\ \A i \in 1 .. Len(pending') :
                    Slice(inflight'.all_candidates, inflight'.request_boundaries, i)
                       = requests[pending'[i]].candidates
        /\ (pc = "scoring" /\ pc' = "stats") =>
              /\ pending' = <<>>
              /\ \E scored \in Outcomes :
                    \A r \in 1 .. NumReq :
                       delivered'[r] =
                          IF r \in Range(pending) /\ r \notin dropped
                          THEN Append(delivered[r],
                                      IF scored.ok
                                      THEN Ok(InnerScore(inflight.query,
                                                         requests[r].candidates))
                                      ELSE scored)
                          ELSE delivered[r]
        /\ pc = "scoring" => ENABLED ScorerOk
        /\ pc = "stats" => ENABLED UpdateStats ]_vars

\* a batch of two requests was flushed and scored: the caller of the first had
\* gone, its candidate was sent to the wrapped scorer with the two of the
\* second, nothing was delivered to it, and the second received the scores of
\* its own two candidates
C28_Witness ==
    /\ pc = "stats"
    /\ Len(requests) >= 2
    /\ dropped = {1}
    /\ inflight.batch_size = 2
    /\ requests[1].candidates = <<1>>
    /\ inflight.all_candidates = <<1, 2, 1>>
    /\ delivered[1] = <<>>
    /\ delivered[2] = <<Ok(InnerScore(1, <<2, 1>>))>>

\* the requests that have been sent a reply
Answered == {r \in 1 .. NumReq : delivered[r] # <<>>}

\* C31: the counters never decrease; they change only in the statistics
\* update that ends a flush, where total_batches grows by one and
\* total_requests by the number of requests of the flushed batch, so that
\* after every flush total_requests is the number of requests flushed so far;
\* avg_batch_size is total_requests / total_batches, and with
\* max_batch_size >= 1 it lies between 1 and max_batch_size.
C31_BatchStats ==
    [][ /\ total_requests' >= total_requests
        /\ total_batches' >= total_batches
        /\ (total_batches' # total_batches \/ total_requests' # total_requests
            \/ avg_batch_size' # avg_batch_size) => (pc = "stats" /\ pc' = "select")
        /\ (pc = "stats" /\ pc' = "select") =>
              /\ total_batches' = total_batches + 1
              /\ total_requests' = Cardinality(Answered)
              /\ total_requests' - total_requests
                    = Cardinality({r \in Answered : r > total_requests})
              /\ avg_batch_size'[1] * total_batches' = total_requests' * avg_batch_size'[2]
              /\ avg_batch_size'[2] > 0
              /\ max_batch_size >= 1 =>
                    /\ avg_batch_size'[1] >= avg_batch_size'[2]
                    /\ avg_batch_size'[1] <= max_batch_size * avg_batch_size'[2] ]_vars

\* two flushes have been counted, one of two requests and one of one: three
\* requests in two batches, an average of 3/2
C31_Witness ==
    /\ pc = "select"
    /\ max_batch_size = 2
    /\ total_batches = 2
    /\ total_requests = 3
    /\ avg_batch_size[1] * 2 = 3 * avg_batch_size[2]

\* the fields each scorer owns: the weighted scorers the weighted score, the
\* caching and batching decorators the model's scores with their request id
\* and time, the diversity scorer its multiplier
Owns(scorer) ==
    CASE scorer \in {"WeightedScorer", "PersonalizedWeightedScorer"} -> {"weighted_score"}
      [] scorer \in {"CachedPhoenixScorer", "BatchedPhoenixScorer"} ->
            {"phoenix_scores", "prediction_request_id", "last_scored_at_ms"}
      [] scorer = "DiversityBoostScorer" -> {"diversity_boost"}

\* C32: a scorer's update changes only the fields that scorer owns: every
\* other field of the candidate, the fields owned by earlier scorers among
\* them, is after the update what it was before
C32_UpdateFrame ==
    fn_ret.fn = "update" =>
        \A f \in StageFields \ Owns(fn_call.scorer) :
            fn_ret.candidate[f] = fn_call.candidate[f]

\* the calls of the batching decorator to the wrapped scorer that are in flight
CallsInFlight == IF pc = "scoring" THEN 1 ELSE 0

\* the requests not yet answered, in the order in which the consumer will
\* answer them: the batch buffer, then the channel
Waiting == pending \o queue

\* C33: batches are processed one at a time and in arrival order.  At most
\* one call to the wrapped scorer is in flight, and so no more than
\* max_concurrent_batches; a flush starts only from the select!, after the
\* flush before it has ended; while a flush runs the buffer and its call are
\* left alone and the channel only grows, so a request that arrives then
\* waits in the channel for a later batch; every request is answered or is
\* waiting, exactly once, the waiting ones in the order of their arrival and
\* after all the answered ones; and a request enqueued before another is
\* answered no later than it
C33_OneBatchInOrder ==
    /\ [](/\ CallsInFlight <= 1
          /\ CallsInFlight <= max_concurrent_batches
          /\ (pc = "scoring") => (inflight # NoCall /\ pending # <<>>)
          /\ (pc = "stats") => pending = <<>>
          /\ \A r \in Created : (r \in Answered) # (Count(Waiting, r) = 1)
          /\ \A r \in Created : Count(Waiting, r) <= 1
          /\ \A i, j \in 1 .. Len(Waiting) : i < j => Waiting[i] < Waiting[j]
          /\ \A a, b \in Created : (a < b /\ b \in Answered) => a \in Answered)
    /\ [][ /\ (pc # "scoring" /\ pc' = "scoring") => pc = "select"
           /\ (pc # "select") =>
                 /\ Len(queue') >= Len(queue)
                 /\ SubSeq(queue', 1, Len(queue)) = queue
                 /\ pending' = pending \/ (pc = "scoring" /\ pending' = <<>>)
           /\ (pc = "scoring" /\ pc' = "scoring") => inflight' = inflight
           /\ (pc = "scoring" /\ pc' # "scoring") =>
                 /\ pc' = "stats"
                 /\ Answered' = Answered \cup Range(pending) ]_vars

\* a request has arrived while the second batch is with the wrapped scorer
C33_Witness ==
    /\ pc = "scoring"
    /\ total_batches = 1
    /\ Range(pending) = {2}
    /\ queue = <<3>>
    /\ 1 \in Answered

\* C34: when a caller's score() returns, the statistics already include its
\* request: total_requests is at least the number of score() calls that have
\* returned.  A call can return as soon as its reply has been sent on its
\* handle, so the calls that may have returned are the answered ones
C34_StatsIncludeReturned == total_requests >= Cardinality(Answered)

\* C35: under overlapping score() calls of the caching decorator the wrapped
\* scorer is not sent the same (viewer, post) twice: two calls that are both
\* with the wrapped scorer have no key in common
C35_SingleFlight ==
    \A t1, t2 \in CacheTasks :
        (t1 # t2 /\ calls[t1].pc = "inner" /\ calls[t2].pc = "inner"
            /\ calls[t1].user_id = calls[t2].user_id) =>
        Range(calls[t1].uncached_candidates) \cap Range(calls[t2].uncached_candidates) = {}

\* the score() calls of the two weighted scorers
WeightedScoreCalls == {"WeightedScorer::score", "PersonalizedWeightedScorer::score"}

\* the normalized score of one candidate, as the scorer called computes it
\* for that candidate alone
ScoreOfOne(call, c) ==
    IF call.fn = "WeightedScorer::score"
    THEN normalize_score(c, compute_weighted_score(c))
    ELSE normalize_score(c, compute_personalized_score(c, call.cluster))

\* a score vector dominated by negative actions: a positive probability of
\* "not interested" or of a report and no like, reply or video view
NegativeDominated(c) ==
    /\ unwrap_or(c.phoenix_scores.not_interested_score, 0) > 0
    /\ unwrap_or(c.phoenix_scores.favorite_score, 0) = 0
    /\ unwrap_or(c.phoenix_scores.reply_score, 0) = 0
    /\ unwrap_or(c.phoenix_scores.vqv_score, 0) = 0

\* C36: score() of the weighted scorer and of the personalized weighted scorer
\* returns one delta per candidate, in the order of the candidates: the i-th
\* delta carries the score of the i-th candidate and nothing else, and that
\* score is present and not negative, whatever the score vector
C36_OneDeltaPerCandidate ==
    fn_ret.fn \in WeightedScoreCalls =>
        /\ Len(fn_ret.scored) = Len(fn_call.candidates)
        /\ \A i \in 1 .. Len(fn_call.candidates) :
              /\ fn_ret.scored[i].weighted_score.set
              /\ fn_ret.scored[i].weighted_score.value >= 0
              /\ fn_ret.scored[i].weighted_score.value
                    = ScoreOfOne(fn_call, fn_call.candidates[i])
              /\ fn_ret.scored[i]
                    = [StageCandidate_default EXCEPT
                          !.weighted_score = fn_ret.scored[i].weighted_score]

\* the personalized scorer has scored a candidate dominated by negative
\* actions and, after it, one with a positive score
C36_Witness ==
    /\ fn_ret.fn = "PersonalizedWeightedScorer::score"
    /\ Len(fn_call.candidates) = 2
    /\ NegativeDominated(fn_call.candidates[1])
    /\ fn_ret.scored[1].weighted_score = Some(0)
    /\ fn_ret.scored[2].weighted_score.set
    /\ fn_ret.scored[2].weighted_score.value > 0

\* x <= y on the f64 values of the model, denominators being positive
F64Leq(x, y) ==
    \/ x.kind = "zero"
    \/ y.kind = "inf"
    \/ (x.kind = "finite" /\ y.kind = "finite" /\ x.num * y.den <= y.num * x.den)

\* m <= n on u32
U32Leq(m, n) == m.hi < n.hi \/ (m.hi = n.hi /\ m.lo <= n.lo)

\* C37: apply_diversity_penalty never increases a positive score: for every
\* u32 author_post_count it returns a value that is at most the score, and
\* for a count that is at least as large it returns no more, the counts from
\* 2^31 on included
C37_PenaltyNeverBoosts ==
    fn_ret.fn = "apply_diversity_penalty" =>
        /\ ~fn_ret.ret.panic
        /\ F64Leq(fn_ret.ret.value, Frac(fn_call.score, 1))
        /\ \A m \in PostCounts, overflow_checks \in BOOLEAN :
              U32Leq(fn_call.author_post_count, m) =>
                 LET later == apply_diversity_penalty(fn_call.score, m, overflow_checks)
                 IN  ~later.panic /\ F64Leq(later.value, fn_ret.ret.value)

RECURSIVE SumSeq(_, _)
\* the sum of the first n entries of the sequence s
SumSeq(s, n) == IF n = 0 THEN 0 ELSE SumSeq(s, n - 1) + s[n]

\* C38: cluster_stats never fails and its numbers agree, whatever calls of
\* assign_user_cluster and refresh_clusters came before: every stored profile
\* has a cluster_id below num_clusters, cluster_sizes has num_clusters entries
\* and they add up to total_users
C38_ClusterStats ==
    LET stats == cluster_stats IN
    /\ ~stats.panic
    /\ \A u \in DOMAIN clusters : clusters[u].cluster_id < num_clusters
    /\ Len(stats.cluster_sizes) = stats.num_clusters
    /\ SumSeq(stats.cluster_sizes, Len(stats.cluster_sizes)) = stats.total_users
    /\ stats.total_users = Cardinality(DOMAIN clusters)

\* the post of candidate c is, at the time of the call, not from the future
\* and of an age of at most max_age
WithinAgeAtCall(c) ==
    LET creation == timestamp_millis(c.tweet_id) IN
    creation <= fn_call.now /\ fn_call.now - creation <= max_age

RECURSIVE Part(_, _, _)
\* the candidates among the first n of the list s for which WithinAgeAtCall
\* is within, in the order of s
Part(s, n, within) ==
    IF n = 0 THEN <<>>
    ELSE IF WithinAgeAtCall(s[n]) = within THEN Append(Part(s, n - 1, within), s[n])
    ELSE Part(s, n - 1, within)

\* C39: every call of AgeFilter::filter splits its candidates into the kept
\* and the removed ones with nothing lost or duplicated: the kept ones are, in
\* order, the candidates whose age at the time of the call is at most max_age,
\* and the removed ones all the others, posts from the future among them;
\* calls made earlier for the same post change nothing
C39_AgeFilter ==
    fn_ret.fn = "AgeFilter::filter" =>
        /\ Len(fn_ret.kept) + Len(fn_ret.removed) = Len(fn_call.candidates)
        /\ fn_ret.kept = Part(fn_call.candidates, Len(fn_call.candidates), TRUE)
        /\ fn_ret.removed = Part(fn_call.candidates, Len(fn_call.candidates), FALSE)

\* the batch-processor task has returned; its loop has no break and no
\* return, so no step of the consumer leads to this position
Terminated == pc = "terminated"

\* C40: once the BatchedPhoenixScorer is dropped and its channel closed, every
\* request enqueued before is still flushed, the channel and the buffer
\* becoming empty, and the batch-processor task then terminates
C40_DrainThenTerminate ==
    closed ~> (queue = <<>> /\ pending = <<>> /\ Terminated)

====
